---- MODULE Spec2Model ----
(***************************************************************************)
(* Model of the "etcd" service of liberium_core: the master election       *)
(* mixin (services/election/etcd-election.js), the replicated key/value    *)
(* service (services/etcd.service.js) and its local store                  *)
(* (services/storage/etcd-storage.js).                                     *)
(*                                                                         *)
(* Node identifiers are the integers 1 < 2 < 3; their order stands for the *)
(* order String.localeCompare gives the node ids "A" < "B" < "C".          *)
(*                                                                         *)
(* Scheduling follows Node.js.  In Spec and FairSpec a handler runs to     *)
(* completion up to its first await on I/O: triggerElection awaits only    *)
(* already-resolved values (the registry lookup is synchronous), so no     *)
(* timer, event or request handler of the same node runs inside it: it is  *)
(* one step.  Handlers of different nodes interleave freely.  Where what   *)
(* runs between an await and its continuation matters, the function is     *)
(* split there and the waiting call is kept in the variable suspended      *)
(* (continuations that are already queued on the node run before an await  *)
(* resumes, even on a resolved value): the election with its await         *)
(* (ElectSpec), a write handler waiting for its replication calls          *)
(* (ReplSpec), incrementValue and compareAndSwapValue between their read   *)
(* and their write (RaceSpec), the handler of etcd.health waiting for the  *)
(* health calls it makes to its peers (HealthSpec), and triggerElection    *)
(* with each outcome of its membership lookup (LookupSpec).  The store at  *)
(* the bound of its change log is LogSpec, applyChanges with entries that  *)
(* fail ApplySpec, and the restart from the files DiskSpec.                *)
(*                                                                         *)
(* The election does not measure time.  lastHeartbeat is read in one place *)
(* only, the test `Date.now() - lastHeartbeat > electionTimeout` of        *)
(* checkMasterHealth; the outcome of that test is an input (timedOut) of   *)
(* the action and the field is not stored.  The store reads the clock      *)
(* (variable now) for its timestamps and expiry, and TimerSpec measures    *)
(* the heartbeat interval against it (field heartbeatDue).                 *)
(***************************************************************************)
EXTENDS Integers, Sequences, FiniteSets, TLC

Nodes == {1, 2, 3}

\* this.masterId = null
NoNode == 0

\* how many times nodes may be killed in one behaviour
MaxKills == 1

\* how many calls of the local store's operations one behaviour makes
MaxOps == 3

\* how many client write requests one behaviour makes
MaxWrites == 2

\* the clock stops at this time
MaxTime == 3

\* a heartbeat tick waits while this many broadcast events are in flight
MaxInFlight == 2
MaxSuspended == 2

VARIABLES
    alive,      \* alive[n]: the process of node n is running
    es,         \* es[n]: the election state of node n (fields of `this`)
    view,       \* view[n]: ids the registry of n lists as available etcd nodes
    peersCheck, \* peersCheck[n]: a setTimeout(checkForEtcdPeers) is pending
    net,        \* broadcast events in flight: [type, from, to]
    killed,     \* history: killed[n] is the number of times n was killed
    store,      \* store[n]: the local store of n, [data, changelog]
    applying,   \* applying[n]: the entries applyChanges has still to replay
    lastSyncTime, \* lastSyncTime[n]
    now,        \* Date.now(), in seconds
    calls,      \* replication calls in flight (broker.call with a nodeID)
    ops,        \* number of store operations and client requests so far
    last,       \* history: the last request handled and its outcome
    replCount,  \* history: replCount[w][m], calls issued to m for client write w
    setRun,     \* history: setRun[k], versions the consecutive Sets of k returned
    lastVersion, \* history: lastVersion[k], version the last write of k returned
    suspended   \* async functions suspended at an await: [fn, node, id, ...]

electionVars == <<alive, es, view, peersCheck, net, killed>>

storeVars ==
    <<store, applying, lastSyncTime, now, calls, ops, last, replCount, setRun,
      lastVersion, suspended>>

vars == <<alive, es, view, peersCheck, net, killed,
          store, applying, lastSyncTime, now, calls, ops, last, replCount, setRun,
          lastVersion, suspended>>

----------------------------------------------------------------------------
(* Election mixin: pure parts                                              *)

\* no interval is running: no next tick
NoDue == 0

\* settings.heartbeatInterval (1500 ms), in whole units of the clock
HeartbeatInterval == 2

\* the state of a process that is not running
DownState ==
    [isMaster |-> FALSE, masterId |-> NoNode, electionInProgress |-> FALSE,
     heartbeatTimer |-> FALSE, heartbeatDue |-> NoDue, electionTimer |-> FALSE]

\* initializeElection, the assignments before becomeMaster()
initializeElectionFields ==
    [isMaster |-> FALSE, masterId |-> NoNode, electionInProgress |-> FALSE,
     heartbeatTimer |-> FALSE, heartbeatDue |-> NoDue, electionTimer |-> FALSE]

\* the least id of a non-empty set: candidates[0] after sortNodesByPriority
Lowest(S) == CHOOSE x \in S : \A y \in S : x <= y

Highest(S) == CHOOSE x \in S : \A y \in S : x >= y

\* a sort that orders the ids the wrong way round
sortNodesByPriorityReversed(nodes) ==
    LET RECURSIVE srt(_)
        srt(S) == IF S = {} THEN <<>>
                  ELSE LET h == Highest(S) IN <<h>> \o srt(S \ {h})
    IN srt(nodes)

\* nodes.sort((a, b) => a.id.localeCompare(b.id))
sortNodesByPriority(nodes) ==
    LET RECURSIVE srt(_)
        srt(S) == IF S = {} THEN <<>>
                  ELSE LET l == Lowest(S) IN <<l>> \o srt(S \ {l})
    IN srt(nodes)

\* clearInterval(heartbeatTimer)
stopHeartbeat(s) == [s EXCEPT !.heartbeatTimer = FALSE, !.heartbeatDue = NoDue]

\* stopHeartbeat(); setInterval(broadcast heartbeat, heartbeatInterval): the
\* first tick of the new interval is one heartbeatInterval from now
startHeartbeat(s) ==
    [stopHeartbeat(s) EXCEPT !.heartbeatTimer = TRUE,
                             !.heartbeatDue = now + HeartbeatInterval]

stopMasterMonitoring(s) == [s EXCEPT !.electionTimer = FALSE]

\* stopMasterMonitoring(); setInterval(checkMasterHealth, 2 * heartbeatInterval)
startMasterMonitoring(s) == [stopMasterMonitoring(s) EXCEPT !.electionTimer = TRUE]

\* becomeMaster without its broadcast (electionBroadcast gives the events)
becomeMaster(s, self) ==
    startHeartbeat([s EXCEPT !.isMaster = TRUE, !.masterId = self])

\* a becomeSlave that forgets to start the master monitoring
becomeSlaveNoMonitoring(s, masterId) ==
    stopHeartbeat([s EXCEPT !.isMaster = FALSE, !.masterId = masterId])

becomeSlave(s, masterId) ==
    startMasterMonitoring(
        stopHeartbeat([s EXCEPT !.isMaster = FALSE, !.masterId = masterId]))

\* broker.broadcast(event): one event per available remote etcd node the
\* sender's registry lists; an event sent to a stopped process is lost.  The
\* local copy of the event is not modelled: both handlers ignore an event
\* whose masterId is the local node id.
Broadcast(type, self, registry) ==
    {[type |-> type, from |-> self, to |-> m] : m \in {x \in registry \ {self} : alive[x]}}

\* triggerElection over the node list getEtcdNodes() returns: the
\* single-flight guard, the decision, and the finally clause
triggerElection(s, self, etcdNodes) ==
    IF s.electionInProgress THEN s
    ELSE LET s0 == [s EXCEPT !.electionInProgress = TRUE]
             s1 == IF etcdNodes = {} THEN becomeMaster(s0, self)
                   ELSE LET candidates == sortNodesByPriority(etcdNodes) IN
                        IF Len(candidates) = 0 \/ candidates[1] = self
                        THEN becomeMaster(s0, self)
                        ELSE becomeSlave(s0, candidates[1])
         IN  [s1 EXCEPT !.electionInProgress = FALSE]

\* the events an election of `self` broadcasts: becomeMaster announces itself
electionBroadcast(s, self, etcdNodes) ==
    IF ~s.electionInProgress /\ triggerElection(s, self, etcdNodes).isMaster
    THEN Broadcast("masterElected", self, etcdNodes) ELSE {}

\* handlers of etcd.masterElected that leave a Master as it is
handleMasterElectedUnlessMaster(s, self, from) ==
    IF from # self /\ ~s.isMaster THEN becomeSlave(s, from) ELSE s

\* handleMasterElected (mixin), then events["etcd.masterElected"] (service):
\* Moleculer runs the handlers of a mixin and of the service, mixin first
handleMasterElected(s, self, from) ==
    LET s1 == IF from # self THEN becomeSlave(s, from) ELSE s
    IN  IF from # self THEN becomeSlave(s1, from) ELSE s1

\* the handler of the service alone: masterId is written, the role is kept
handleHeartbeatServiceOnly(s, self, from) ==
    IF from # self THEN [s EXCEPT !.masterId = from] ELSE s

\* handleHeartbeat (mixin), then events["etcd.heartbeat"] (service)
handleHeartbeat(s, self, from) ==
    LET s1 == IF from # self
              THEN LET u == [s EXCEPT !.masterId = from]
                   IN  IF u.isMaster THEN becomeSlave(u, from) ELSE u
              ELSE s
    IN  IF from # self
        THEN [s1 EXCEPT !.masterId = from]
        ELSE s1

----------------------------------------------------------------------------
(* Local store (etcd-storage.js): pure parts                               *)
(*                                                                         *)
(* A store is [data, changelog]: data maps each stored key to its value    *)
(* and metadata (the two Maps of the code always hold the same keys),      *)
(* changelog is the array of change entries.  A value is <<type, n>>.      *)
(* Time is counted in seconds: Date.now() is the variable now, a ttl of t seconds     *)
(* gives expiresAt = time + t.  saveToDisk rewrites both files from the     *)
(* store in memory, so the persisted copy always equals it.                *)

Keys == {"x", "y"}

Num(i) == <<"number", i>>
Str(i) == <<"string", i>>
Null == <<"null", 0>>

\* an object or array value: its content and the reference that holds it.  The
\* === of compareAndSwapValue compares two objects by reference; tuple equality
\* does the same here, as distinct objects carry distinct references.
Obj(content, ref) == <<"object", content, ref>>

\* the two values denote the same JSON value
SameValue(a, b) == a[1] = b[1] /\ a[2] = b[2]

\* ttl undefined (or 0): `ttl ? ... : null`
NoTtl == 0

\* expiresAt = null
NoExpiry == 0

\* the changelog keeps its last 1000 entries
ChangelogMax == 1000

\* getChangesSince without a timestamp: changelog.slice(-100)
SyncWindow == 100

EmptyStore == [data |-> <<>>, changelog |-> <<>>]

\* array.slice(-n)
LastN(seq, n) ==
    IF Len(seq) <= n THEN seq ELSE SubSeq(seq, Len(seq) - n + 1, Len(seq))

\* map.delete(key)
Without(map, key) == [k \in DOMAIN map \ {key} |-> map[k]]

\* map.set(key, e)
With(map, key, e) == [k \in DOMAIN map \cup {key} |-> IF k = key THEN e ELSE map[k]]

\* an addToChangelog that keeps the first 1000 entries
addToChangelogKeepOldest(changelog, entry) ==
    LET pushed == Append(changelog, entry)
    IN  IF Len(pushed) > ChangelogMax THEN SubSeq(pushed, 1, ChangelogMax) ELSE pushed

addToChangelog(changelog, entry) ==
    LET pushed == Append(changelog, entry)
    IN  IF Len(pushed) > ChangelogMax THEN LastN(pushed, ChangelogMax) ELSE pushed

SetEntry(key, value, time, version, ttl) ==
    [action |-> "set", key |-> key, value |-> value, timestamp |-> time,
     version |-> version, ttl |-> ttl]

\* a delete entry has no value, version or ttl
DeleteEntry(key, time) ==
    [action |-> "delete", key |-> key, value |-> Null, timestamp |-> time,
     version |-> 0, ttl |-> NoTtl]

\* a version that is not incremented: existing ? existing.version : 1
nextVersionNoIncrement(st, key) ==
    IF key \in DOMAIN st.data THEN st.data[key].version ELSE 1

\* the version setValue gives: existing ? existing.version + 1 : 1
nextVersion(st, key) ==
    IF key \in DOMAIN st.data THEN st.data[key].version + 1 ELSE 1

\* setValue: the store after it; the version it returns is nextVersion
setValue(st, key, value, ttl, time) ==
    LET existing == key \in DOMAIN st.data
        version == nextVersion(st, key)
        expiresAt == IF ttl # NoTtl THEN time + ttl ELSE NoExpiry
        entry == [value |-> value,
                  createdAt |-> IF existing THEN st.data[key].createdAt ELSE time,
                  updatedAt |-> time,
                  version |-> version,
                  expiresAt |-> expiresAt]
    IN  [data |-> With(st.data, key, entry),
         changelog |-> addToChangelog(st.changelog,
                                      SetEntry(key, value, time, version, ttl))]

\* a deleteKey without the `existed` test: it logs and reports every call
deleteKeyUnchecked(st, key, time) ==
    [st |-> [data |-> Without(st.data, key),
             changelog |-> addToChangelog(st.changelog, DeleteEntry(key, time))],
     deleted |-> TRUE]

\* deleteKey: [st, deleted]
deleteKey(st, key, time) ==
    IF key \notin DOMAIN st.data
    THEN [st |-> st, deleted |-> FALSE]
    ELSE [st |-> [data |-> Without(st.data, key),
                  changelog |-> addToChangelog(st.changelog, DeleteEntry(key, time))],
          deleted |-> TRUE]

\* metadata.expiresAt && metadata.expiresAt < Date.now()
Expired(entry, time) == entry.expiresAt # NoExpiry /\ entry.expiresAt < time

\* a getValue without the expiry check: it returns whatever the maps hold
getValueNoExpiry(st, key, time) ==
    IF key \notin DOMAIN st.data
    THEN [st |-> st, found |-> FALSE, value |-> Null, version |-> 0]
    ELSE [st |-> st, found |-> TRUE, value |-> st.data[key].value,
          version |-> st.data[key].version]

\* getValue: [st, found, value, version]; an expired key is deleted and not found
getValue(st, key, time) ==
    IF key \notin DOMAIN st.data
    THEN [st |-> st, found |-> FALSE, value |-> Null, version |-> 0]
    ELSE IF Expired(st.data[key], time)
    THEN [st |-> deleteKey(st, key, time).st, found |-> FALSE, value |-> Null,
          version |-> 0]
    ELSE [st |-> st, found |-> TRUE, value |-> st.data[key].value,
          version |-> st.data[key].version]

\* key.startsWith(prefix), for the one-character keys of Keys and a prefix
\* that is empty or one character
StartsWith(key, prefix) == prefix = "" \/ prefix = key

\* the loop of getByPrefix over the keys todo: [st, keys]. A Map iterates in
\* insertion order, which data does not record: the keys answered do not
\* depend on the order, only the order of the delete entries of keys that
\* expired together does.
RECURSIVE getByPrefixKeys(_, _, _)
getByPrefixKeys(st, todo, time) ==
    IF todo = {} THEN [st |-> st, keys |-> {}]
    ELSE LET key == CHOOSE k \in todo : TRUE
             result == getValue(st, key, time)
             rest == getByPrefixKeys(result.st, todo \ {key}, time)
         IN  [st |-> rest.st,
              keys |-> rest.keys \cup IF result.found THEN {key} ELSE {}]

\* getByPrefix: [st, keys], the keys of the records it returns
getByPrefix(st, prefix, time) ==
    getByPrefixKeys(st, {k \in DOMAIN st.data : StartsWith(k, prefix)}, time)

\* getAllKeys without a pattern
NoPattern == ""

\* getAllKeys: the keys of data, expired or not; a pattern here is one key
getAllKeys(st, pattern) ==
    IF pattern = NoPattern THEN DOMAIN st.data
    ELSE {k \in DOMAIN st.data : k = pattern}

\* an incrementValue that stores delta whatever the key holds
incrementValueOverwrite(st, key, delta, time) ==
    LET current == getValue(st, key, time) IN
    [st |-> setValue(current.st, key, Num(delta), NoTtl, time),
     error |-> "none",
     value |-> Num(delta),
     version |-> nextVersion(current.st, key)]

\* incrementValue from the point where `await this.getValue(key)` has given
\* current, on the store st as it is by then
incrementValueResume(st, key, delta, current, time) ==
    IF current.found /\ current.value # Null /\ current.value[1] # "number"
    THEN [st |-> st, error |-> "TypeMismatch", value |-> Null, version |-> 0]
    ELSE LET newValue == IF current.found /\ current.value # Null
                         THEN Num(current.value[2] + delta)
                         ELSE Num(delta)
         IN  [st |-> setValue(st, key, newValue, NoTtl, time),
              error |-> "none",
              value |-> newValue,
              version |-> nextVersion(st, key)]

\* an incrementValue without the typeof test: what is not a number counts as 0
incrementValueNoTypeCheck(st, key, delta, time) ==
    LET current == getValue(st, key, time)
        newValue == IF current.found /\ current.value[1] = "number"
                    THEN Num(current.value[2] + delta)
                    ELSE Num(delta)
    IN  [st |-> setValue(current.st, key, newValue, NoTtl, time),
         error |-> "none",
         value |-> newValue,
         version |-> nextVersion(current.st, key)]

\* incrementValue: [st, error, value, version]
incrementValue(st, key, delta, time) ==
    LET current == getValue(st, key, time) IN
    incrementValueResume(current.st, key, delta, current, time)

\* a compareAndSwapValue that swaps without comparing
compareAndSwapValueBlind(st, key, expectedValue, newValue, time) ==
    LET current == getValue(st, key, time) IN
    [st |-> setValue(current.st, key, newValue, NoTtl, time),
     success |-> TRUE,
     version |-> nextVersion(current.st, key)]

\* compareAndSwapValue from the point where `await this.getValue(key)` has
\* given current, on the store st as it is by then
compareAndSwapValueResume(st, key, expectedValue, newValue, current, time) ==
    IF (~current.found /\ expectedValue = Null)
       \/ (current.found /\ current.value = expectedValue)
    THEN [st |-> setValue(st, key, newValue, NoTtl, time),
          success |-> TRUE,
          version |-> nextVersion(st, key)]
    ELSE [st |-> st, success |-> FALSE, version |-> 0]

\* compareAndSwapValue: [st, success, version]; expectedValue Null is null/undefined
compareAndSwapValue(st, key, expectedValue, newValue, time) ==
    LET current == getValue(st, key, time) IN
    compareAndSwapValueResume(current.st, key, expectedValue, newValue, current, time)

\* cleanupExpiredKeys (run by getLocalStats): expired keys leave both maps
cleanupExpiredKeys(st, time) ==
    [st EXCEPT !.data =
        [k \in {x \in DOMAIN st.data : ~Expired(st.data[x], time)} |-> st.data[k]]]

\* no timestamp was passed (undefined)
NoTimestamp == -1

\* getChangesSince(timestamp); !timestamp holds for undefined and for 0
getChangesSince(st, timestamp) ==
    IF timestamp = NoTimestamp \/ timestamp = 0 THEN LastN(st.changelog, SyncWindow)
    ELSE SelectSeq(st.changelog, LAMBDA change : change.timestamp > timestamp)

\* an entry whose action is neither "set" nor "delete"
UnknownEntry ==
    [action |-> "rename", key |-> "x", value |-> Null, timestamp |-> 1,
     version |-> 0, ttl |-> NoTtl]

\* null as an element of the array of changes
NullEntry ==
    [action |-> "null", key |-> "none", value |-> Null, timestamp |-> 0,
     version |-> 0, ttl |-> NoTtl]

\* one turn of the loop of applyChanges: [st, raised].  saved tells whether the
\* saveToDisk of the replayed call succeeds: it is awaited after the maps and
\* the log are written, and its error is caught and logged by the turn.  On
\* null, reading change.action throws inside the try and reading change.key
\* for the log message throws again inside the catch.
applyTurn(st, change, saved, time) ==
    IF change = NullEntry THEN [st |-> st, raised |-> TRUE]
    ELSE IF change.action = "set"
    THEN [st |-> setValue(st, change.key, change.value, change.ttl, time),
          raised |-> FALSE]
    ELSE IF change.action = "delete"
    THEN [st |-> deleteKey(st, change.key, time).st, raised |-> FALSE]
    ELSE [st |-> st, raised |-> FALSE]

\* applyChanges: the entries are replayed in order through setValue / deleteKey
RECURSIVE applyChanges(_, _, _)
applyChanges(st, changes, time) ==
    IF changes = <<>> THEN st
    ELSE LET turn == applyTurn(st, Head(changes), TRUE, time)
         IN  IF turn.raised THEN turn.st
             ELSE applyChanges(turn.st, Tail(changes), time)

----------------------------------------------------------------------------
(* Election: actions                                                       *)

\* started(): initializeElection -> becomeMaster (announced to the nodes the
\* registry lists), and setTimeout(checkForEtcdPeers, 2000).  Discovery is
\* taken as immediate: the registry of the starting node lists the running
\* nodes, and each of them handles "$node.connected" (which only sets a
\* checkForEtcdPeers timer).  A node restarts after the others dropped it.
Started(n) ==
    /\ ~alive[n]
    /\ \A m \in Nodes : n \notin view[m]
    /\ LET V == {m \in Nodes \ {n} : alive[m]}
           msgs == {[type |-> "masterElected", from |-> n, to |-> m] : m \in V}
       IN  /\ view' = [m \in Nodes |-> IF m = n THEN V \cup {n}
                                       ELSE IF alive[m] THEN view[m] \cup {n}
                                       ELSE view[m]]
           /\ net' = net \cup msgs
    /\ alive' = [alive EXCEPT ![n] = TRUE]
    /\ es' = [es EXCEPT ![n] = becomeMaster(initializeElectionFields, n)]
    /\ peersCheck' = [m \in Nodes |-> alive[m] \/ m = n]
    /\ UNCHANGED <<killed, storeVars>>

RECURSIVE Sum(_, _)
Sum(f, S) == IF S = {} THEN 0
             ELSE LET x == CHOOSE y \in S : TRUE IN f[x] + Sum(f, S \ {x})

Kills == Sum(killed, Nodes)

\* the process of n stops (crash or kill): its timers and state are gone,
\* events addressed to it are lost, events it sent stay in flight
Kill(n) ==
    /\ alive[n]
    /\ Kills < MaxKills
    /\ killed' = [killed EXCEPT ![n] = @ + 1]
    /\ alive' = [alive EXCEPT ![n] = FALSE]
    /\ es' = [es EXCEPT ![n] = DownState]
    /\ view' = [view EXCEPT ![n] = {}]
    /\ peersCheck' = [peersCheck EXCEPT ![n] = FALSE]
    /\ net' = {msg \in net : msg.to # n}
    /\ UNCHANGED storeVars

\* events["$node.disconnected"]: the registry of n dropped the stopped node m
NodeDisconnected(n, m) ==
    /\ alive[n]
    /\ ~alive[m]
    /\ m \in view[n]
    /\ view' = [view EXCEPT ![n] = @ \ {m}]
    /\ LET run == (m = es[n].masterId)
           msgs == IF run THEN electionBroadcast(es[n], n, view[n] \ {m}) ELSE {}
       IN  /\ es' = [es EXCEPT ![n] =
                       IF run THEN triggerElection(@, n, view[n] \ {m}) ELSE @]
           /\ net' = net \cup msgs
    /\ UNCHANGED <<alive, peersCheck, killed, storeVars>>

\* checkForEtcdPeers, run by a timer set in started() or on $node.connected
checkForEtcdPeers(n) ==
    /\ alive[n]
    /\ peersCheck[n]
    /\ peersCheck' = [peersCheck EXCEPT ![n] = FALSE]
    /\ LET run == Cardinality(view[n]) > 1 /\ ~es[n].electionInProgress
           msgs == IF run THEN electionBroadcast(es[n], n, view[n]) ELSE {}
       IN  /\ es' = [es EXCEPT ![n] = IF run THEN triggerElection(@, n, view[n]) ELSE @]
           /\ net' = net \cup msgs
    /\ UNCHANGED <<alive, view, killed, storeVars>>

\* one tick of the interval set by startHeartbeat
HeartbeatTick(n) ==
    /\ alive[n]
    /\ es[n].heartbeatTimer
    /\ Cardinality(net) < MaxInFlight
    /\ net' = net \cup Broadcast("heartbeat", n, view[n])
    /\ UNCHANGED <<alive, es, view, peersCheck, killed, storeVars>>

DeliverMasterElected(n, from) ==
    /\ alive[n]
    /\ [type |-> "masterElected", from |-> from, to |-> n] \in net
    /\ net' = net \ {[type |-> "masterElected", from |-> from, to |-> n]}
    /\ es' = [es EXCEPT ![n] = handleMasterElected(@, n, from)]
    /\ UNCHANGED <<alive, view, peersCheck, killed, storeVars>>

DeliverHeartbeat(n, from) ==
    /\ alive[n]
    /\ [type |-> "heartbeat", from |-> from, to |-> n] \in net
    /\ net' = net \ {[type |-> "heartbeat", from |-> from, to |-> n]}
    /\ es' = [es EXCEPT ![n] = handleHeartbeat(@, n, from)]
    /\ UNCHANGED <<alive, view, peersCheck, killed, storeVars>>

\* a checkMasterHealth that tests the heartbeat timeout only
checkMasterHealthTimeoutOnly(s, timedOut, probeOk) ==
    IF s.isMaster THEN FALSE ELSE timedOut

\* whether checkMasterHealth calls triggerElection, given the outcome of its
\* timeout test and of its health call
checkMasterHealthTriggers(s, timedOut, probeOk) ==
    IF s.isMaster THEN FALSE
    ELSE IF timedOut THEN TRUE
    ELSE s.masterId # NoNode /\ ~probeOk

\* one tick of the interval set by startMasterMonitoring.  The health call to
\* a stopped node fails; the call to a running node answers or times out.
checkMasterHealth(n, timedOut, probeOk) ==
    /\ alive[n]
    /\ es[n].electionTimer
    /\ probeOk => (es[n].masterId \in Nodes /\ alive[es[n].masterId])
    /\ LET run == checkMasterHealthTriggers(es[n], timedOut, probeOk)
           msgs == IF run THEN electionBroadcast(es[n], n, view[n]) ELSE {}
       IN  /\ es' = [es EXCEPT ![n] = IF run THEN triggerElection(@, n, view[n]) ELSE @]
           /\ net' = net \cup msgs
    /\ UNCHANGED <<alive, view, peersCheck, killed, storeVars>>

----------------------------------------------------------------------------
NoLast ==
    [node |-> NoNode, action |-> "none", key |-> "none", isReplication |-> FALSE,
     wasMaster |-> FALSE, error |-> "none", found |-> FALSE, success |-> FALSE,
     deleted |-> FALSE, value |-> Null, version |-> 0, fanout |-> 0,
     answered |-> {}, delta |-> 0, expectedValue |-> Null, lastSyncTime |-> 0]

\* a Set run of a key starts when the key is absent
NewRun == [valid |-> TRUE, versions |-> <<>>]

\* initializeStorage with no data file: empty maps, lastSyncTime = Date.now()
InitStoreVars ==
    /\ store = [n \in Nodes |-> EmptyStore]
    /\ applying = [n \in Nodes |-> <<>>]
    /\ now = 1
    /\ lastSyncTime = [n \in Nodes |-> 1]
    /\ calls = {}
    /\ ops = 0
    /\ last = NoLast
    /\ replCount = [w \in 1..MaxWrites |-> [m \in Nodes |-> 0]]
    /\ setRun = [k \in Keys |-> NewRun]
    /\ lastVersion = [k \in Keys |-> 0]
    /\ suspended = {}

Init ==
    /\ alive = [n \in Nodes |-> FALSE]
    /\ es = [n \in Nodes |-> DownState]
    /\ view = [n \in Nodes |-> {}]
    /\ peersCheck = [n \in Nodes |-> FALSE]
    /\ net = {}
    /\ killed = [n \in Nodes |-> 0]
    /\ InitStoreVars

Next ==
    \/ \E n \in Nodes : Started(n)
    \/ \E n \in Nodes : Kill(n)
    \/ \E n, m \in Nodes : NodeDisconnected(n, m)
    \/ \E n \in Nodes : checkForEtcdPeers(n)
    \/ \E n \in Nodes : HeartbeatTick(n)
    \/ \E n, m \in Nodes : DeliverMasterElected(n, m)
    \/ \E n, m \in Nodes : DeliverHeartbeat(n, m)
    \/ \E n \in Nodes, timedOut, ok \in BOOLEAN : checkMasterHealth(n, timedOut, ok)

Spec == Init /\ [][Next]_vars

----------------------------------------------------------------------------
(* Scheduling: what the timers, the transporter and the registry guarantee *)

\* the node recorded as master by n is running
MasterAlive(n) == es[n].masterId \in Nodes /\ alive[es[n].masterId]

\* a heartbeat for n is in flight, or a running node is broadcasting them to n
HeartbeatExpected(n) ==
    \/ \E msg \in net : msg.type = "heartbeat" /\ msg.to = n
    \/ \E m \in Nodes \ {n} : alive[m] /\ es[m].heartbeatTimer /\ n \in view[m]

\* Timers fire, events in flight are delivered, the registry notices a stopped
\* node.  A monitoring tick eventually sees the heartbeat timeout when no
\* heartbeat can arrive, and its health call fails when the master is stopped.
Fairness ==
    /\ \A n \in Nodes : WF_vars(checkForEtcdPeers(n))
    /\ \A n \in Nodes : WF_vars(HeartbeatTick(n))
    /\ \A n \in Nodes :
         WF_vars(checkMasterHealth(n, ~HeartbeatExpected(n), MasterAlive(n)))
    /\ \A n, m \in Nodes : WF_vars(DeliverMasterElected(n, m))
    /\ \A n, m \in Nodes : WF_vars(DeliverHeartbeat(n, m))
    /\ \A n, m \in Nodes : WF_vars(NodeDisconnected(n, m))

FairSpec == Spec /\ Fairness

AliveNodes == {n \in Nodes : alive[n]}

Masters == {n \in AliveNodes : es[n].isMaster}

IsMasterNode(n) == alive[n] /\ es[n].isMaster /\ es[n].masterId = n

IsSlaveOf(n, m) == alive[n] /\ ~es[n].isMaster /\ es[n].masterId = m

\* the lowest running node is Master and every other running node is its Slave
Settled ==
    AliveNodes # {} =>
        \A n \in AliveNodes :
            IF n = Lowest(AliveNodes) THEN IsMasterNode(n)
            ELSE IsSlaveOf(n, Lowest(AliveNodes))

AllAlive == AliveNodes = Nodes

\* node 1 (A) is stopped, nodes 2 (B) and 3 (C) run
DeadA == ~alive[1] /\ alive[2] /\ alive[3]

\* B is Master and C is its Slave
FailedOverToB == IsMasterNode(2) /\ IsSlaveOf(3, 2)

----------------------------------------------------------------------------
(* Local store: the operations of one node's store, in any order           *)

\* the node whose store is exercised: it runs alone
StoreNode == Lowest(Nodes)

\* Obj(1, 1): an object as the store received it
SetValues == {Num(1), Str(1), Obj(1, 1)}

Deltas == {1, 5}

Ttls == {NoTtl, 1}

CasExpected == {Null, Num(1)}

CasNew == {Num(2)}

\* Obj(1, 2): an equal object in a request that came over the transporter,
\* Obj(1, 1): the very object the store holds, passed back by a local caller
StoreCasExpected == CasExpected \cup {Obj(1, 1), Obj(1, 2)}

StoreDeltas == {3, 5}

\* change lists a sync answer may carry
ChangeEntries ==
    {SetEntry("x", Num(1), 1, 1, NoTtl), SetEntry("x", Num(2), 1, 2, 1),
     DeleteEntry("x", 1)}

ChangeLists ==
    {<<c>> : c \in ChangeEntries} \cup {<<c, d>> : c, d \in ChangeEntries}

\* Date.now() advances
Tick ==
    /\ now < MaxTime
    /\ now' = now + 1
    /\ UNCHANGED <<electionVars, store, applying, lastSyncTime, calls, ops, last,
                   replCount, setRun, lastVersion, suspended>>

\* setRun[k] after a step from store st0 to st1; rec is the step's record
RunAfter(k, st0, st1, rec) ==
    IF k \notin DOMAIN st1.data THEN NewRun
    ELSE IF rec.action = "set" /\ rec.key = k
    THEN [setRun[k] EXCEPT !.versions = Append(@, rec.version)]
    ELSE IF k \notin DOMAIN st0.data \/ st1.data[k] # st0.data[k]
    THEN [setRun[k] EXCEPT !.valid = FALSE]
    ELSE setRun[k]

\* one operation on the store of StoreNode: st1 is the store after it, rec its
\* record, pending what applyChanges has still to replay, cost its count
StoreStep(st1, rec, pending, cost) ==
    /\ ops + cost <= MaxOps
    /\ ops' = ops + cost
    /\ store' = [store EXCEPT ![StoreNode] = st1]
    /\ applying' = [applying EXCEPT ![StoreNode] = pending]
    /\ last' = rec
    /\ setRun' = [k \in Keys |-> RunAfter(k, store[StoreNode], st1, rec)]
    /\ lastVersion' = IF rec.success
                      THEN [lastVersion EXCEPT ![rec.key] = rec.version]
                      ELSE lastVersion
    /\ UNCHANGED <<electionVars, lastSyncTime, now, calls, replCount, suspended>>

StoreRecord(action, key) ==
    [NoLast EXCEPT !.node = StoreNode, !.action = action, !.key = key,
                   !.wasMaster = es[StoreNode].isMaster]

StoreSet(key, value, ttl) ==
    /\ alive[StoreNode]
    /\ LET st1 == setValue(store[StoreNode], key, value, ttl, now)
       IN  StoreStep(st1,
                     [StoreRecord("set", key) EXCEPT !.success = TRUE, !.value = value,
                                                     !.version = st1.data[key].version],
                     applying[StoreNode], 1)

StoreGet(key) ==
    /\ alive[StoreNode]
    /\ LET r == getValue(store[StoreNode], key, now)
       IN  StoreStep(r.st,
                     [StoreRecord("get", key) EXCEPT !.found = r.found, !.value = r.value,
                                                     !.version = r.version],
                     applying[StoreNode], 1)

StoreDelete(key) ==
    /\ alive[StoreNode]
    /\ LET r == deleteKey(store[StoreNode], key, now)
       IN  StoreStep(r.st, [StoreRecord("delete", key) EXCEPT !.deleted = r.deleted],
                     applying[StoreNode], 1)

StoreIncrement(key, delta) ==
    /\ alive[StoreNode]
    /\ LET r == incrementValue(store[StoreNode], key, delta, now)
       IN  StoreStep(r.st,
                     [StoreRecord("increment", key) EXCEPT !.delta = delta,
                                                           !.error = r.error,
                                                           !.success = r.error = "none",
                                                           !.value = r.value,
                                                           !.version = r.version],
                     applying[StoreNode], 1)

StoreCompareAndSwap(key, expectedValue, newValue) ==
    /\ alive[StoreNode]
    /\ LET r == compareAndSwapValue(store[StoreNode], key, expectedValue, newValue, now)
       IN  StoreStep(r.st,
                     [StoreRecord("compareAndSwap", key) EXCEPT !.success = r.success,
                                                                !.expectedValue = expectedValue,
                                                                !.value = newValue,
                                                                !.version = r.version],
                     applying[StoreNode], 1)

\* getLocalStats -> cleanupExpiredKeys
StoreCleanup ==
    /\ alive[StoreNode]
    /\ StoreStep(cleanupExpiredKeys(store[StoreNode], now),
                 StoreRecord("cleanup", "none"), applying[StoreNode], 1)

\* applyChanges(changes) is called: its loop awaits each replayed entry, so
\* other operations may run between two entries
StoreApplyChanges(changes) ==
    /\ applying[StoreNode] = <<>>
    /\ StoreStep(store[StoreNode], StoreRecord("applyChanges", "none"), changes, 1)

\* one turn of the loop of applyChanges
StoreApplyNext ==
    /\ applying[StoreNode] # <<>>
    /\ LET change == Head(applying[StoreNode])
           st1 == applyChanges(store[StoreNode], <<change>>, now)
           rec == IF change.action = "set"
                  THEN [StoreRecord("applyChanges", change.key) EXCEPT
                            !.success = TRUE, !.value = change.value,
                            !.version = st1.data[change.key].version]
                  ELSE StoreRecord("applyChanges", change.key)
       IN  StoreStep(st1, rec, Tail(applying[StoreNode]), 0)

\* the state Started(StoreNode) leaves when the node starts alone
StartedAlone ==
    /\ alive = [n \in Nodes |-> n = StoreNode]
    /\ es = [n \in Nodes |-> IF n = StoreNode
                             THEN becomeMaster(initializeElectionFields, n)
                             ELSE DownState]
    /\ view = [n \in Nodes |-> IF n = StoreNode THEN {n} ELSE {}]
    /\ peersCheck = [n \in Nodes |-> n = StoreNode]
    /\ net = {}
    /\ killed = [n \in Nodes |-> 0]

StoreInit == InitStoreVars /\ StartedAlone

StoreNext ==
    \/ \E k \in Keys, v \in SetValues, ttl \in Ttls : StoreSet(k, v, ttl)
    \/ \E k \in Keys : StoreGet(k)
    \/ \E k \in Keys : StoreDelete(k)
    \/ \E k \in Keys, d \in StoreDeltas : StoreIncrement(k, d)
    \/ \E k \in Keys, e \in StoreCasExpected, v \in CasNew :
          StoreCompareAndSwap(k, e, v)
    \/ StoreCleanup
    \/ \E changes \in ChangeLists : StoreApplyChanges(changes)
    \/ StoreApplyNext
    \/ Tick

StoreSpec == StoreInit /\ [][StoreNext]_vars

\* the step is a successful write of key k (Tick leaves ops and applying alone)
Wrote(k) ==
    /\ <<ops', applying'>> # <<ops, applying>>
    /\ last'.success /\ last'.key = k

----------------------------------------------------------------------------
(* etcd service (etcd.service.js): write handlers, replication and sync    *)
(*                                                                         *)
(* The roles are those the election left: the requests below run while no  *)
(* election step happens.  A handler runs as one step; the replication     *)
(* calls it issues are answered later, one by one, in any order.           *)

\* a value of the runtime as the handlers see it
Undefined == [type |-> "undefined"]

ArrayValue(elements) == [type |-> "array", elements |-> elements]

\* value[name]: only an object that has the property gives it
GetProperty(value, name) ==
    IF value.type = "object" /\ name \in DOMAIN value.fields
    THEN value.fields[name]
    ELSE Undefined

\* an ensureMaster that never throws
ensureMasterAlways(s) == TRUE

\* ensureMaster: TRUE when it returns, FALSE when it throws
ensureMaster(s) == s.isMaster

\* a handler that replicates whatever the flag says
shouldReplicateAlways(isReplication) == TRUE

\* !ctx.meta.isReplication
shouldReplicate(isReplication) == ~isReplication

\* the other nodes the registry of n lists as available etcd nodes
getEtcdSlaves(n) == view[n] \ {n}

Request(action, key, value, ttl, delta, expectedValue) ==
    [action |-> action, key |-> key, value |-> value, ttl |-> ttl, delta |-> delta,
     expectedValue |-> expectedValue]

NoOutcome(st) ==
    [st |-> st, error |-> "none", success |-> FALSE, deleted |-> FALSE,
     value |-> Null, version |-> 0, replicate |-> FALSE]

\* the store call of a write handler
executeWrite(st, req, time) ==
    IF req.action = "set"
    THEN LET st1 == setValue(st, req.key, req.value, req.ttl, time)
         IN  [NoOutcome(st1) EXCEPT !.success = TRUE, !.value = req.value,
                                    !.version = st1.data[req.key].version]
    ELSE IF req.action = "delete"
    THEN LET r == deleteKey(st, req.key, time)
         IN  [NoOutcome(r.st) EXCEPT !.deleted = r.deleted]
    ELSE IF req.action = "increment"
    THEN LET r == incrementValue(st, req.key, req.delta, time)
         IN  [NoOutcome(r.st) EXCEPT !.error = r.error, !.success = r.error = "none",
                                     !.value = r.value, !.version = r.version]
    ELSE LET r == compareAndSwapValue(st, req.key, req.expectedValue, req.value, time)
         IN  [NoOutcome(r.st) EXCEPT !.success = r.success, !.value = req.value,
                                     !.version = r.version]

\* handler of set / delete / increment / compareAndSwap on a node in election
\* state s with store st; replicate: the handler calls replicateToSlaves
writeHandler(s, st, req, isReplication, time) ==
    IF ~ensureMaster(s)
    THEN [NoOutcome(st) EXCEPT !.error = "NotMaster"]
    ELSE LET r == executeWrite(st, req, time)
         IN  [r EXCEPT !.replicate =
                 /\ r.error = "none"
                 /\ req.action = "compareAndSwap" => r.success
                 /\ shouldReplicate(isReplication)]

\* what the handler hands to replicateToSlaves: a swap is replicated as a set
replicatedRequest(req) ==
    IF req.action = "compareAndSwap"
    THEN Request("set", req.key, req.value, NoTtl, 0, Null)
    ELSE req

\* replicateToSlaves: one broker.call per slave, for client write wid
replicateToSlaves(n, req, wid) ==
    {[to |-> m, from |-> n, wid |-> wid, req |-> req] : m \in getEtcdSlaves(n)}

\* a write handler suspended at `await this.replicateToSlaves(...)`, which
\* awaits Promise.allSettled of its calls; result is what it will return
AwaitingReplication(n, wid, req, h) ==
    [fn |-> "writeHandler", node |-> n, id |-> wid, action |-> req.action,
     key |-> req.key,
     result |-> [success |-> h.success, deleted |-> h.deleted, value |-> h.value,
                 version |-> h.version]]

\* a handler runs on node n; out are the replication calls it issues
Handle(n, req, isReplication, wid, answeredCalls) ==
    LET h == writeHandler(es[n], store[n], req, isReplication, now)
        out == IF h.replicate THEN replicateToSlaves(n, replicatedRequest(req), wid)
               ELSE {}
    IN  /\ store' = [store EXCEPT ![n] = h.st]
        /\ suspended' = IF out # {}
                        THEN suspended \cup {AwaitingReplication(n, wid, req, h)}
                        ELSE suspended
        /\ calls' = (calls \ answeredCalls) \cup out
        /\ replCount' = [replCount EXCEPT ![wid] =
               [m \in Nodes |-> @[m] + IF \E c \in out : c.to = m THEN 1 ELSE 0]]
        /\ last' = [node |-> n, action |-> req.action, key |-> req.key,
                    isReplication |-> isReplication, wasMaster |-> es[n].isMaster,
                    error |-> h.error, found |-> FALSE, success |-> h.success,
                    deleted |-> h.deleted, value |-> h.value, version |-> h.version,
                    fanout |-> Cardinality(out), answered |-> {},
                    delta |-> req.delta, expectedValue |-> req.expectedValue,
                    lastSyncTime |-> 0]
        /\ UNCHANGED <<electionVars, applying, lastSyncTime, now, setRun, lastVersion>>

WriteActions == {"set", "delete", "increment", "compareAndSwap"}

ReadActions == {"get", "getPrefix", "keys"}

NoAnswer(st) ==
    [st |-> st, error |-> "none", found |-> FALSE, value |-> Null, version |-> 0,
     keys |-> {}]

\* the store call of a read handler; param is the key, prefix or pattern
executeRead(st, action, param, time) ==
    IF action = "get"
    THEN LET r == getValue(st, param, time)
         IN  [NoAnswer(r.st) EXCEPT !.found = r.found, !.value = r.value,
                                    !.version = r.version]
    ELSE IF action = "getPrefix"
    THEN LET r == getByPrefix(st, param, time)
         IN  [NoAnswer(r.st) EXCEPT !.keys = r.keys]
    ELSE [NoAnswer(st) EXCEPT !.keys = getAllKeys(st, param)]

\* a read handler that calls ensureMaster first, as the write handlers do
readHandlerMasterOnly(s, st, action, param, time) ==
    IF ~ensureMaster(s)
    THEN [NoAnswer(st) EXCEPT !.error = "NotMaster"]
    ELSE executeRead(st, action, param, time)

\* handler of get / getPrefix / keys: the store call and nothing else
readHandler(s, st, action, param, time) == executeRead(st, action, param, time)

\* a client calls a read action on node n
ClientRead(n, action, param) ==
    /\ alive[n]
    /\ ops < MaxWrites
    /\ ops' = ops + 1
    /\ LET h == readHandler(es[n], store[n], action, param, now)
       IN  /\ store' = [store EXCEPT ![n] = h.st]
           /\ last' = [NoLast EXCEPT
                          !.node = n, !.action = action, !.key = param,
                          !.wasMaster = es[n].isMaster, !.error = h.error,
                          !.found = h.found, !.value = h.value,
                          !.version = h.version, !.answered = h.keys]
    /\ UNCHANGED <<electionVars, applying, lastSyncTime, now, calls, replCount,
                   setRun, lastVersion, suspended>>

ClientGet(n, key) == ClientRead(n, "get", key)

ClientGetPrefix(n, prefix) == ClientRead(n, "getPrefix", prefix)

ClientKeys(n, pattern) == ClientRead(n, "keys", pattern)

\* a client calls a write action on node n
ClientWrite(n, req) ==
    /\ alive[n]
    /\ ops < MaxWrites
    /\ ops' = ops + 1
    /\ Handle(n, req, FALSE, ops + 1, {})

ClientSet(n, key, value, ttl) ==
    ClientWrite(n, Request("set", key, value, ttl, 0, Null))

ClientDelete(n, key) ==
    ClientWrite(n, Request("delete", key, Null, NoTtl, 0, Null))

ClientIncrement(n, key, delta) ==
    ClientWrite(n, Request("increment", key, Null, NoTtl, delta, Null))

ClientCompareAndSwap(n, key, expectedValue, newValue) ==
    ClientWrite(n, Request("compareAndSwap", key, newValue, NoTtl, 0, expectedValue))

\* a replication call that, when it fails, abandons the other calls of its
\* write
DeliverReplicationFailFast(c) ==
    /\ c \in calls
    /\ alive[c.to]
    /\ UNCHANGED ops
    /\ LET failed == writeHandler(es[c.to], store[c.to], c.req, TRUE, now).error # "none"
       IN  Handle(c.to, c.req, TRUE, c.wid,
                  IF failed THEN {d \in calls : d.wid = c.wid} ELSE {c})

\* a replication call reaches its target: the same handler runs there with
\* meta.isReplication set; an error is caught and logged by the caller
DeliverReplication(c) ==
    /\ c \in calls
    /\ alive[c.to]
    /\ UNCHANGED ops
    /\ Handle(c.to, c.req, TRUE, c.wid, {c})

\* every call of replicateToSlaves has settled (fulfilled, or rejected and
\* caught): Promise.allSettled resolves, the handler resumes and returns its
\* local result to the client
ReturnToClient(h) ==
    /\ h \in suspended /\ h.fn = "writeHandler"
    /\ alive[h.node]
    /\ \A c \in calls : c.wid # h.id
    /\ suspended' = suspended \ {h}
    /\ last' = [NoLast EXCEPT !.node = h.node, !.action = "response", !.key = h.key,
                              !.success = h.result.success,
                              !.deleted = h.result.deleted,
                              !.value = h.result.value,
                              !.version = h.result.version]
    /\ UNCHANGED <<electionVars, store, applying, lastSyncTime, now, calls, ops,
                   replCount, setRun, lastVersion>>

\* a sync action that answers whatever the node's role
syncActionAnyRole(s, st, timestamp) ==
    [error |-> "none", response |-> ArrayValue(getChangesSince(st, timestamp))]

\* actions.sync on a node in election state s with store st
syncAction(s, st, timestamp) ==
    IF s.isMaster
    THEN [error |-> "none", response |-> ArrayValue(getChangesSince(st, timestamp))]
    ELSE [error |-> "OnlyMaster", response |-> Undefined]

SyncTimestamps == {0, 1}

\* any caller calls etcd.sync on node n with params.lastSyncTime = timestamp
ClientSync(n, timestamp) ==
    /\ alive[n]
    /\ ops < MaxWrites
    /\ ops' = ops + 1
    /\ LET answer == syncAction(es[n], store[n], timestamp)
       IN  last' = [NoLast EXCEPT
                       !.node = n, !.action = "sync", !.wasMaster = es[n].isMaster,
                       !.error = answer.error, !.value = answer.response,
                       !.lastSyncTime = timestamp]
    /\ UNCHANGED <<electionVars, store, applying, lastSyncTime, now, calls,
                   replCount, setRun, lastVersion, suspended>>

\* the etcd.syncRequest event reaches node n with payload.nodeId = from:
\* handleSyncRequest emits etcd.syncResponse with the changes, and only a
\* Master that did not send the request itself calls it
SyncRequestEvent(n, from, timestamp) ==
    /\ alive[n]
    /\ ops < MaxWrites
    /\ ops' = ops + 1
    /\ last' = [NoLast EXCEPT
                   !.node = n, !.action = "syncRequest",
                   !.wasMaster = es[n].isMaster,
                   !.value = IF es[n].isMaster /\ from # n
                             THEN ArrayValue(getChangesSince(store[n], timestamp))
                             ELSE Undefined,
                   !.lastSyncTime = timestamp]
    /\ UNCHANGED <<electionVars, store, applying, lastSyncTime, now, calls,
                   replCount, setRun, lastVersion, suspended>>

\* keys of a list of changes
ChangedKeys(changes) == {changes[i].key : i \in 1..Len(changes)}

\* periodicSync on node n (every syncInterval); the call and its answer are
\* taken as one step; inTime says whether the answer came within the call's
\* timeout of 5000 ms
periodicSync(n, inTime) ==
    /\ alive[n]
    /\ ~es[n].isMaster /\ es[n].masterId # NoNode
    /\ LET m == es[n].masterId
           answer == IF ~alive[m] THEN [error |-> "Unavailable", response |-> Undefined]
                     ELSE IF ~inTime THEN [error |-> "Timeout", response |-> Undefined]
                     ELSE syncAction(es[m], store[m], lastSyncTime[n])
           changes == GetProperty(answer.response, "changes")
           apply == /\ answer.error = "none"
                    /\ changes.type = "array"
                    /\ Len(changes.elements) > 0
       IN  /\ store' = IF apply
                       THEN [store EXCEPT ![n] = applyChanges(@, changes.elements, now)]
                       ELSE store
           /\ lastSyncTime' = IF apply THEN [lastSyncTime EXCEPT ![n] = now]
                              ELSE lastSyncTime
           /\ last' = [NoLast EXCEPT
                          !.node = n, !.action = "periodicSync", !.error = answer.error,
                          !.value = answer.response,
                          !.lastSyncTime = lastSyncTime[n],
                          !.answered = IF answer.error = "none"
                                       THEN ChangedKeys(answer.response.elements)
                                       ELSE {}]
    /\ UNCHANGED <<electionVars, applying, now, calls, ops, replCount, setRun,
                   lastVersion, suspended>>

\* all three nodes run, the lowest is Master and the others are its Slaves
SettledCluster ==
    /\ alive = [n \in Nodes |-> TRUE]
    /\ es = [n \in Nodes |->
               IF n = Lowest(Nodes) THEN becomeMaster(initializeElectionFields, n)
               ELSE becomeSlave(becomeMaster(initializeElectionFields, n),
                                Lowest(Nodes))]
    /\ view = [n \in Nodes |-> Nodes]
    /\ peersCheck = [n \in Nodes |-> FALSE]
    /\ net = {}
    /\ killed = [n \in Nodes |-> 0]

\* all three nodes have just started, one after the other: each is still the
\* Master its initializeElection made it
FreshCluster ==
    /\ alive = [n \in Nodes |-> TRUE]
    /\ es = [n \in Nodes |-> becomeMaster(initializeElectionFields, n)]
    /\ view = [n \in Nodes |-> Nodes]
    /\ peersCheck = [n \in Nodes |-> TRUE]
    /\ net = {e \in [type : {"masterElected"}, from : Nodes, to : Nodes] :
                  e.to < e.from}
    /\ killed = [n \in Nodes |-> 0]

ReplInit == InitStoreVars /\ (SettledCluster \/ FreshCluster)

ReplKeys == {"x"}

ReplValues == {Num(1)}

ReplPrefixes == {"x"}

ReplPatterns == {NoPattern}

ReplNext ==
    \/ \E n \in Nodes, k \in ReplKeys, v \in ReplValues, ttl \in Ttls :
          ClientSet(n, k, v, ttl)
    \/ \E n \in Nodes, k \in ReplKeys : ClientDelete(n, k)
    \/ \E n \in Nodes, k \in ReplKeys, d \in Deltas : ClientIncrement(n, k, d)
    \/ \E n \in Nodes, k \in ReplKeys, e \in CasExpected, v \in CasNew :
          ClientCompareAndSwap(n, k, e, v)
    \/ \E n \in Nodes, k \in ReplKeys : ClientGet(n, k)
    \/ \E n \in Nodes, p \in ReplPrefixes : ClientGetPrefix(n, p)
    \/ \E n \in Nodes, p \in ReplPatterns : ClientKeys(n, p)
    \/ \E c \in calls : DeliverReplication(c)
    \/ \E h \in suspended : ReturnToClient(h)
    \/ \E n \in Nodes, inTime \in BOOLEAN : periodicSync(n, inTime)
    \/ \E n \in Nodes, t \in SyncTimestamps : ClientSync(n, t)
    \/ \E n, from \in Nodes, t \in SyncTimestamps : SyncRequestEvent(n, from, t)
    \/ Tick

ReplSpec == ReplInit /\ [][ReplNext]_vars

\* slave s holds every key of keys that master m holds, at the same value and
\* version
Agrees(s, m, keys) ==
    \A k \in keys \cap DOMAIN store[m].data :
        /\ k \in DOMAIN store[s].data
        /\ store[s].data[k].value = store[m].data[k].value
        /\ store[s].data[k].version = store[m].data[k].version

----------------------------------------------------------------------------
(* Health probes.  The handler of etcd.health calls checkClusterHealth,     *)
(* which calls etcd.health on every other node its registry lists, one      *)
(* after the other, each call with a timeout of 2000 ms; checkMasterHealth  *)
(* of the election calls etcd.health on the Master the same way.  A handler *)
(* in suspended is [fn, kind, node, id, path, todo, waiting, answered,      *)
(* healthy, total]: path is the chain of nodes from the first caller down   *)
(* to the handler's node, todo the peers still to probe, waiting the peer   *)
(* whose answer is awaited, answered the peers whose call returned and      *)
(* healthy those among them that reported status healthy.                   *)

\* how long a chain of probes the model follows
MaxDepth == 3

\* how many health requests and master probes one behaviour starts
MaxProbes == 1

\* a verdict that takes half of the nodes for a majority
clusterHealthyAtHalf(answered, total) == 2 * (Cardinality(answered) + 1) >= total

\* the verdict of checkClusterHealth: healthyNodes > totalNodes / 2, where
\* healthyNodes counts the calls that returned, plus one for the node itself
clusterHealthy(answered, total) == 2 * (Cardinality(answered) + 1) > total

HealthHandler(kind, n, id, path, todo, total) ==
    [fn |-> "health", kind |-> kind, node |-> n, id |-> id, path |-> path,
     todo |-> todo, waiting |-> NoNode, answered |-> {}, healthy |-> {},
     total |-> total]

HealthFrame ==
    UNCHANGED <<alive, view, peersCheck, killed, applying, lastSyncTime, now,
                calls, replCount, setRun, lastVersion>>

\* a client calls etcd.health on node n: getLocalStats, then checkClusterHealth
\* starts on the nodes the registry lists
HealthRequest(n) ==
    /\ alive[n]
    /\ ops < MaxProbes
    /\ ops' = ops + 1
    /\ store' = [store EXCEPT ![n] = cleanupExpiredKeys(@, now)]
    /\ suspended' = suspended \cup
           {HealthHandler("health", n, ops + 1, <<n>>, view[n] \ {n},
                          Cardinality(view[n]))}
    /\ UNCHANGED <<es, net, last>>
    /\ HealthFrame

\* checkMasterHealth on Slave n, its heartbeat test passed: the health call to
\* the Master
MasterProbe(n) ==
    /\ alive[n]
    /\ es[n].electionTimer
    /\ ~es[n].isMaster /\ es[n].masterId # NoNode
    /\ ops < MaxProbes
    /\ ops' = ops + 1
    /\ suspended' = suspended \cup
           {HealthHandler("checkMasterHealth", n, ops + 1, <<n>>, {es[n].masterId}, 0)}
    /\ UNCHANGED <<es, net, store, last>>
    /\ HealthFrame

\* handler h calls etcd.health on peer p: a stopped node fails the call at
\* once, a running one starts its own handler
ProbeNext(h, p) ==
    /\ h \in suspended /\ h.fn = "health"
    /\ alive[h.node]
    /\ h.waiting = NoNode /\ p \in h.todo
    /\ Len(h.path) < MaxDepth
    /\ IF alive[p]
       THEN /\ suspended' = (suspended \ {h}) \cup
                   {[h EXCEPT !.waiting = p],
                    HealthHandler("health", p, h.id, Append(h.path, p),
                                  view[p] \ {p}, Cardinality(view[p]))}
            /\ store' = [store EXCEPT ![p] = cleanupExpiredKeys(@, now)]
       ELSE /\ suspended' = (suspended \ {h}) \cup {[h EXCEPT !.todo = @ \ {p}]}
            /\ store' = store
    /\ UNCHANGED <<es, net, ops, last>>
    /\ HealthFrame

\* the handler that called c and still awaits its answer
Callers(c) ==
    {h \in suspended : /\ h.fn = "health" /\ h.id = c.id
                       /\ Len(c.path) > 1
                       /\ h.path = SubSeq(c.path, 1, Len(c.path) - 1)
                       /\ h.waiting = c.node}

\* handler c has probed all its peers and returns: to the client when it is
\* the first of its chain, else to the handler that called it if that one
\* still waits.  checkMasterHealth goes on after its health call: its catch
\* calls triggerElection when the call failed.
HealthReturn(c) ==
    /\ c \in suspended /\ c.fn = "health"
    /\ alive[c.node]
    /\ c.todo = {} /\ c.waiting = NoNode
    /\ LET verdict == clusterHealthy(c.answered, c.total)
           run == c.kind = "checkMasterHealth" /\ c.answered = {}
       IN  /\ es' = [es EXCEPT ![c.node] =
                       IF run THEN triggerElection(@, c.node, view[c.node]) ELSE @]
           /\ net' = net \cup
                     (IF run THEN electionBroadcast(es[c.node], c.node, view[c.node])
                      ELSE {})
           /\ suspended' =
                 (suspended \ ({c} \cup Callers(c))) \cup
                 {[h EXCEPT !.waiting = NoNode, !.todo = @ \ {c.node},
                            !.answered = @ \cup {c.node},
                            !.healthy = IF verdict THEN @ \cup {c.node} ELSE @] :
                  h \in Callers(c)}
           /\ last' = IF Len(c.path) > 1 THEN last
                      ELSE IF c.kind = "health"
                      THEN [NoLast EXCEPT !.node = c.node, !.action = "health",
                                          !.success = verdict,
                                          !.wasMaster = es[c.node].isMaster,
                                          !.answered = c.answered,
                                          !.fanout = c.total,
                                          !.expectedValue = c.healthy]
                      ELSE [NoLast EXCEPT !.node = c.node,
                                          !.action = "checkMasterHealth",
                                          !.success = c.answered # {},
                                          !.wasMaster = es[c.node].isMaster,
                                          !.error = IF run THEN "triggerElection"
                                                    ELSE "none",
                                          !.answered = c.answered]
    /\ UNCHANGED <<store, ops>>
    /\ HealthFrame

\* the call handler h awaits runs into its timeout of 2000 ms.  The call of h
\* started after the call that started h, so while the caller of h still
\* waits, the timeout of h is not due.
ProbeTimeout(h) ==
    /\ h \in suspended /\ h.fn = "health"
    /\ alive[h.node]
    /\ h.waiting # NoNode
    /\ Callers(h) = {}
    /\ suspended' = (suspended \ {h}) \cup
                        {[h EXCEPT !.waiting = NoNode, !.todo = @ \ {h.waiting}]}
    /\ UNCHANGED <<es, net, store, ops, last>>
    /\ HealthFrame

\* a cluster with at most one node stopped, the lowest running node Master
\* and the others its Slaves; the registry of a running node lists the node
\* itself and those of the other nodes it has discovered and not yet dropped
HealthInit ==
    /\ InitStoreVars
    /\ \E dead \in {S \in SUBSET Nodes : Cardinality(S) <= 1} :
          LET up == Nodes \ dead IN
          /\ alive = [n \in Nodes |-> n \in up]
          /\ es = [n \in Nodes |->
                     IF n \in dead THEN DownState
                     ELSE IF n = Lowest(up)
                     THEN becomeMaster(initializeElectionFields, n)
                     ELSE becomeSlave(becomeMaster(initializeElectionFields, n),
                                      Lowest(up))]
          /\ view \in {v \in [Nodes -> SUBSET Nodes] :
                           \A n \in Nodes : IF n \in up THEN n \in v[n]
                                             ELSE v[n] = {}}
          /\ killed = [n \in Nodes |-> IF n \in dead THEN 1 ELSE 0]
    /\ peersCheck = [n \in Nodes |-> FALSE]
    /\ net = {}

HealthNext ==
    \/ \E n \in Nodes : HealthRequest(n)
    \/ \E n \in Nodes : MasterProbe(n)
    \/ \E h \in suspended, p \in Nodes : ProbeNext(h, p)
    \/ \E c \in suspended : HealthReturn(c)
    \/ \E h \in suspended : ProbeTimeout(h)

HealthSpec == HealthInit /\ [][HealthNext]_vars

----------------------------------------------------------------------------
(* The files of the store.  saveToDisk follows every change of the maps     *)
(* (setValue, deleteKey, cleanupExpiredKeys), so between two operations     *)
(* data.json and changelog.json hold what saveToDisk writes for the store;  *)
(* a restart finds them so, or damaged.                                     *)

\* the reference of an object JSON.parse has built
ParsedRef == 0

\* JSON.parse(JSON.stringify(value)): an object comes back as a new object
Parsed(value) == IF value[1] = "object" THEN Obj(value[2], ParsedRef) ELSE value

\* saveDataFile: data.json holds the entries, `version: metadata.version || 1`
saveDataFile(st) ==
    [kind |-> "json",
     entries |-> [k \in DOMAIN st.data |->
                    [st.data[k] EXCEPT !.version = IF @ = 0 THEN 1 ELSE @]]]

\* saveChangelogFile: changelog.json holds the array
saveChangelogFile(st) == [kind |-> "json", log |-> st.changelog]

\* saveToDisk
saveToDisk(st) == [data |-> saveDataFile(st), changelog |-> saveChangelogFile(st)]

FileFaults == {"none", "missing", "empty", "corrupt"}

\* the files as a restart finds them: as written, or absent, of size 0, or
\* holding text JSON.parse rejects
Damaged(files, dataFault, logFault) ==
    [data |-> IF dataFault = "none" THEN files.data ELSE [kind |-> dataFault],
     changelog |-> IF logFault = "none" THEN files.changelog
                   ELSE [kind |-> logFault]]

\* loadDataFile into the maps of st: [st, file, threw]
loadDataFile(st, file, time) ==
    IF file.kind \in {"missing", "empty"}
    THEN [st |-> st, file |-> saveDataFile(st), threw |-> FALSE]
    ELSE IF file.kind = "corrupt"
    THEN [st |-> st, file |-> file, threw |-> TRUE]
    ELSE LET live == {k \in DOMAIN file.entries : ~Expired(file.entries[k], time)}
         IN  [st |-> [st EXCEPT !.data =
                         [k \in live |->
                            [file.entries[k] EXCEPT
                                !.value = Parsed(@),
                                !.version = IF @ = 0 THEN 1 ELSE @]]],
              file |-> file, threw |-> FALSE]

\* loadChangelogFile: an absent or unreadable file gives an empty log, an
\* empty file leaves the log as it is
loadChangelogFile(st, file) ==
    IF file.kind = "json"
    THEN [st EXCEPT !.changelog =
             LastN([i \in 1..Len(file.log) |->
                       [file.log[i] EXCEPT !.value = Parsed(@)]], ChangelogMax)]
    ELSE IF file.kind = "empty" THEN st
    ELSE [st EXCEPT !.changelog = <<>>]

\* initializeStorage -> loadFromDisk: [st, files]
loadFromDisk(files, time) ==
    LET d == loadDataFile(EmptyStore, files.data, time)
    IN  IF d.threw
        THEN [st |-> EmptyStore, files |-> saveToDisk(EmptyStore)]
        ELSE [st |-> loadChangelogFile(d.st, files.changelog),
              files |-> [files EXCEPT !.data = d.file]]

\* the process of StoreNode stops and starts again: started() runs
\* initializeStorage on the files it finds
Restart(dataFault, logFault) ==
    /\ alive[StoreNode]
    /\ applying[StoreNode] = <<>>
    /\ ops < MaxOps
    /\ ops' = ops + 1
    /\ LET found == Damaged(saveToDisk(store[StoreNode]), dataFault, logFault)
           r == loadFromDisk(found, now)
       IN  /\ store' = [store EXCEPT ![StoreNode] = r.st]
           /\ last' = [StoreRecord("restart", dataFault) EXCEPT
                          !.value = r.files, !.expectedValue = found]
    /\ lastSyncTime' = [lastSyncTime EXCEPT ![StoreNode] = now]
    /\ setRun' = [k \in Keys |-> [valid |-> FALSE, versions |-> <<>>]]
    /\ UNCHANGED <<electionVars, applying, now, calls, replCount, lastVersion,
                   suspended>>

DiskInit == StoreInit

DiskNext ==
    \/ \E k \in Keys, v \in SetValues, ttl \in Ttls : StoreSet(k, v, ttl)
    \/ \E k \in Keys : StoreDelete(k)
    \/ StoreCleanup
    \/ \E dataFault \in FileFaults, logFault \in FileFaults :
          Restart(dataFault, logFault)
    \/ Tick

DiskSpec == DiskInit /\ [][DiskNext]_vars

----------------------------------------------------------------------------
(* applyChanges with entries that fail: a list may hold an entry of an      *)
(* unknown action or null, and the save of a replayed entry may fail.       *)

ApplyEntries == ChangeEntries \cup {UnknownEntry, NullEntry}

ApplyLists ==
    {<<c>> : c \in ApplyEntries} \cup {<<c, d>> : c, d \in ApplyEntries}

\* one turn of the loop of a running applyChanges; when the turn raises,
\* applyChanges ends there with that error
ApplyTurn(saved) ==
    /\ applying[StoreNode] # <<>>
    /\ LET change == Head(applying[StoreNode])
           turn == applyTurn(store[StoreNode], change, saved, now)
           rec == IF turn.raised
                  THEN [StoreRecord("applyChanges", change.key) EXCEPT
                            !.error = "TypeError"]
                  ELSE IF change.action = "set"
                  THEN [StoreRecord("applyChanges", change.key) EXCEPT
                            !.success = TRUE, !.value = change.value,
                            !.version = turn.st.data[change.key].version]
                  ELSE StoreRecord("applyChanges", change.key)
       IN  StoreStep(turn.st, rec,
                     IF turn.raised THEN <<>> ELSE Tail(applying[StoreNode]), 0)

ApplyInit == StoreInit

ApplyNext ==
    \/ \E k \in Keys, v \in SetValues, ttl \in Ttls : StoreSet(k, v, ttl)
    \/ \E changes \in ApplyLists : StoreApplyChanges(changes)
    \/ \E saved \in BOOLEAN : ApplyTurn(saved)
    \/ Tick

ApplySpec == ApplyInit /\ [][ApplyNext]_vars

----------------------------------------------------------------------------
(* The change log at its bound: the store of a node that has set one key    *)
(* about a thousand times, and the operations that append to its log.       *)

\* the store after n calls setValue("x", 1) at time 1 on an empty store
\* (n >= 1, and no more than the bound of the log)
SetTimes(n) ==
    [data |-> [k \in {"x"} |->
                  [value |-> Num(1), createdAt |-> 1, updatedAt |-> 1, version |-> n,
                   expiresAt |-> NoExpiry]],
     changelog |-> [i \in 1..n |-> SetEntry("x", Num(1), 1, i, NoTtl)]]

\* numbers of earlier calls: the log is about to reach its bound, or is at it
LogFills == {ChangelogMax - 1, ChangelogMax}

LogInit ==
    /\ \E n \in LogFills :
          /\ store = [m \in Nodes |-> IF m = StoreNode THEN SetTimes(n) ELSE EmptyStore]
          /\ lastVersion = [k \in Keys |-> IF k = "x" THEN n ELSE 0]
    /\ applying = [n \in Nodes |-> <<>>]
    /\ now = 1
    /\ lastSyncTime = [n \in Nodes |-> 1]
    /\ calls = {}
    /\ ops = 0
    /\ last = NoLast
    /\ replCount = [w \in 1..MaxWrites |-> [m \in Nodes |-> 0]]
    /\ setRun = [k \in Keys |-> [valid |-> FALSE, versions |-> <<>>]]
    /\ suspended = {}
    /\ StartedAlone

LogTimestamps == {NoTimestamp, 0, 1, 2}

\* getChangesSince(timestamp) is called on the store of StoreNode
StoreChangesSince(timestamp) ==
    /\ alive[StoreNode]
    /\ StoreStep(store[StoreNode],
                 [StoreRecord("getChangesSince", "none") EXCEPT
                     !.lastSyncTime = timestamp,
                     !.value = ArrayValue(getChangesSince(store[StoreNode], timestamp))],
                 applying[StoreNode], 1)

LogNext ==
    \/ \E t \in LogTimestamps : StoreChangesSince(t)
    \/ \E k \in Keys, v \in SetValues, ttl \in Ttls : StoreSet(k, v, ttl)
    \/ \E k \in Keys : StoreGet(k)
    \/ \E k \in Keys : StoreDelete(k)
    \/ \E k \in Keys, d \in StoreDeltas : StoreIncrement(k, d)
    \/ Tick

LogSpec == LogInit /\ [][LogNext]_vars

----------------------------------------------------------------------------
(* The store with its awaits: incrementValue and compareAndSwapValue read   *)
(* the key with `await this.getValue(key)` and write it with setValue once  *)
(* they resume; nothing in the store keeps another call of the same node    *)
(* from running in between.                                                 *)

\* what getValue has given a caller
Current(r) == [found |-> r.found, value |-> r.value]

\* incrementValue or compareAndSwapValue is called and runs up to its
\* `await this.getValue(key)`
ReadCurrent(fn, key, delta, expectedValue, newValue) ==
    /\ alive[StoreNode]
    /\ ops < MaxOps
    /\ Cardinality(suspended) < MaxSuspended
    /\ ops' = ops + 1
    /\ LET r == getValue(store[StoreNode], key, now)
       IN  /\ store' = [store EXCEPT ![StoreNode] = r.st]
           /\ suspended' = suspended \cup
                  {[fn |-> fn, node |-> StoreNode, id |-> ops + 1, key |-> key,
                    delta |-> delta, expectedValue |-> expectedValue,
                    newValue |-> newValue, current |-> Current(r)]}
    /\ UNCHANGED <<electionVars, applying, lastSyncTime, now, calls, last,
                   replCount, setRun, lastVersion>>

IncrementCall(key, delta) == ReadCurrent("incrementValue", key, delta, Null, Null)

CompareAndSwapCall(key, expectedValue, newValue) ==
    ReadCurrent("compareAndSwapValue", key, 0, expectedValue, newValue)

\* the suspended call h resumes with what it has read, writes and returns;
\* answered holds the calls still suspended by then
WriteBack(h) ==
    /\ h \in suspended
    /\ h.fn \in {"incrementValue", "compareAndSwapValue"}
    /\ alive[h.node]
    /\ suspended' = suspended \ {h}
    /\ LET st == store[h.node]
           inc == incrementValueResume(st, h.key, h.delta, h.current, now)
           cas == compareAndSwapValueResume(st, h.key, h.expectedValue, h.newValue,
                                            h.current, now)
           others == {g.id : g \in suspended \ {h}}
       IN  IF h.fn = "incrementValue"
           THEN /\ store' = [store EXCEPT ![h.node] = inc.st]
                /\ last' = [StoreRecord("increment", h.key) EXCEPT
                               !.delta = h.delta, !.error = inc.error,
                               !.success = inc.error = "none", !.value = inc.value,
                               !.version = inc.version, !.answered = others]
           ELSE /\ store' = [store EXCEPT ![h.node] = cas.st]
                /\ last' = [StoreRecord("compareAndSwap", h.key) EXCEPT
                               !.success = cas.success,
                               !.expectedValue = h.expectedValue,
                               !.value = h.newValue, !.version = cas.version,
                               !.answered = others]
    /\ UNCHANGED <<electionVars, applying, lastSyncTime, now, calls, ops,
                   replCount, setRun, lastVersion>>

RaceInit == StoreInit

RaceNext ==
    \/ \E k \in Keys, v \in SetValues, ttl \in Ttls : StoreSet(k, v, ttl)
    \/ \E k \in Keys : StoreDelete(k)
    \/ \E k \in Keys, d \in StoreDeltas : IncrementCall(k, d)
    \/ \E k \in Keys, e \in CasExpected, v \in CasNew : CompareAndSwapCall(k, e, v)
    \/ \E h \in suspended : WriteBack(h)
    \/ Tick

RaceSpec == RaceInit /\ [][RaceNext]_vars

----------------------------------------------------------------------------
(* Elections with their await: triggerElection suspends at                 *)
(* `await this.getEtcdNodes()` after it has set electionInProgress and     *)
(* read the registry; the continuations queued on the node meanwhile (the  *)
(* catch of a failed health call, an event handler) run before it resumes. *)

\* a triggerElection suspended at its await, with the node list it has read
ElectionBody(n, id, etcdNodes) ==
    [fn |-> "triggerElection", node |-> n, id |-> id, etcdNodes |-> etcdNodes]

ElectionBodies(n) ==
    {b \in suspended : b.fn = "triggerElection" /\ b.node = n}

\* a triggerElection without its single-flight guard
triggerElectionCallUnguarded(s) ==
    [s |-> [s EXCEPT !.electionInProgress = TRUE], started |-> TRUE]

\* triggerElection from its call to its await: [s, started]
triggerElectionCall(s) ==
    IF s.electionInProgress THEN [s |-> s, started |-> FALSE]
    ELSE [s |-> [s EXCEPT !.electionInProgress = TRUE], started |-> TRUE]

\* triggerElection from its await on: the decision and the finally clause
triggerElectionResume(s, self, etcdNodes) ==
    LET s1 == IF etcdNodes = {} THEN becomeMaster(s, self)
              ELSE LET candidates == sortNodesByPriority(etcdNodes) IN
                   IF Len(candidates) = 0 \/ candidates[1] = self
                   THEN becomeMaster(s, self)
                   ELSE becomeSlave(s, candidates[1])
    IN  [s1 EXCEPT !.electionInProgress = FALSE]

\* a caller on node n calls triggerElection()
ElectionCall(n) ==
    /\ ops < MaxOps
    /\ ops' = ops + 1
    /\ LET c == triggerElectionCall(es[n]) IN
       /\ es' = [es EXCEPT ![n] = c.s]
       /\ suspended' = IF c.started
                       THEN suspended \cup {ElectionBody(n, ops + 1, view[n])}
                       ELSE suspended
       /\ last' = [NoLast EXCEPT !.node = n, !.action = "triggerElection",
                                 !.wasMaster = es[n].isMaster,
                                 !.success = c.started]
    /\ UNCHANGED <<alive, view, net, killed, store, applying, lastSyncTime, now,
                   calls, replCount, setRun, lastVersion>>

\* checkForEtcdPeers calls triggerElection when it sees a peer and no
\* election in flight
PeersCheckCalls(n) ==
    /\ alive[n]
    /\ peersCheck[n]
    /\ Cardinality(view[n]) > 1 /\ ~es[n].electionInProgress
    /\ peersCheck' = [peersCheck EXCEPT ![n] = FALSE]
    /\ ElectionCall(n)

\* a checkMasterHealth tick whose timeout test or health call makes it call
\* triggerElection
HealthCheckCalls(n, timedOut, probeOk) ==
    /\ alive[n]
    /\ es[n].electionTimer
    /\ checkMasterHealthTriggers(es[n], timedOut, probeOk)
    /\ UNCHANGED peersCheck
    /\ ElectionCall(n)

\* the suspended triggerElection b resumes
ResumeElection(b) ==
    /\ b \in suspended /\ b.fn = "triggerElection"
    /\ alive[b.node]
    /\ suspended' = suspended \ {b}
    /\ es' = [es EXCEPT ![b.node] = triggerElectionResume(@, b.node, b.etcdNodes)]
    /\ net' = net \cup
              IF triggerElectionResume(es[b.node], b.node, b.etcdNodes).isMaster
              THEN Broadcast("masterElected", b.node, b.etcdNodes) ELSE {}
    /\ UNCHANGED <<alive, view, peersCheck, killed, store, applying, lastSyncTime,
                   now, calls, ops, last, replCount, setRun, lastVersion>>

ElectInit == InitStoreVars /\ (SettledCluster \/ FreshCluster)

\* what `await this.getEtcdNodes()` gives: the list read from the registry, a
\* list without any etcd node, or a rejection
LookupOutcomes == {"nodes", "empty", "error"}

\* a triggerElection whose catch is not followed by a finally clause
triggerElectionSettleNoFinally(s, self, etcdNodes, outcome) ==
    IF outcome = "error" THEN s
    ELSE triggerElectionResume(s, self, IF outcome = "empty" THEN {} ELSE etcdNodes)

\* triggerElection from its await on, for each outcome of the lookup: the try
\* block with its early return, the catch that keeps the state, the finally
triggerElectionSettle(s, self, etcdNodes, outcome) ==
    IF outcome = "error" THEN [s EXCEPT !.electionInProgress = FALSE]
    ELSE triggerElectionResume(s, self, IF outcome = "empty" THEN {} ELSE etcdNodes)

\* the suspended triggerElection b resumes with the outcome of its lookup
FinishElection(b, outcome) ==
    /\ b \in suspended /\ b.fn = "triggerElection"
    /\ alive[b.node]
    /\ suspended' = suspended \ {b}
    /\ LET s1 == triggerElectionSettle(es[b.node], b.node, b.etcdNodes, outcome)
       IN  /\ es' = [es EXCEPT ![b.node] = s1]
           /\ net' = net \cup
                     IF outcome # "error" /\ s1.isMaster
                     THEN Broadcast("masterElected", b.node, b.etcdNodes) ELSE {}
           /\ last' = [NoLast EXCEPT !.node = b.node,
                                     !.action = "triggerElectionDone",
                                     !.wasMaster = es[b.node].isMaster,
                                     !.success = outcome # "error",
                                     !.error = IF outcome = "error" THEN "lookup"
                                               ELSE "none",
                                     !.fanout = IF outcome = "nodes"
                                                THEN Cardinality(b.etcdNodes) ELSE 0]
    /\ UNCHANGED <<alive, view, peersCheck, killed, store, applying, lastSyncTime,
                   now, calls, ops, replCount, setRun, lastVersion>>

LookupInit == ElectInit

LookupNext ==
    \/ \E n \in Nodes : PeersCheckCalls(n)
    \/ \E n \in Nodes, timedOut, ok \in BOOLEAN : HealthCheckCalls(n, timedOut, ok)
    \/ \E b \in suspended, outcome \in LookupOutcomes : FinishElection(b, outcome)
    \/ \E n, m \in Nodes : DeliverMasterElected(n, m)

\* the promise of getEtcdNodes settles: a suspended triggerElection resumes
LookupFairness ==
    \A n \in Nodes :
       WF_vars(\E b \in ElectionBodies(n), outcome \in LookupOutcomes :
                  FinishElection(b, outcome))

LookupSpec == LookupInit /\ [][LookupNext]_vars /\ LookupFairness

ElectNext ==
    \/ \E n \in Nodes : PeersCheckCalls(n)
    \/ \E n \in Nodes, timedOut, ok \in BOOLEAN : HealthCheckCalls(n, timedOut, ok)
    \/ \E b \in suspended : ResumeElection(b)
    \/ \E n \in Nodes : HeartbeatTick(n)
    \/ \E n, m \in Nodes : DeliverMasterElected(n, m)
    \/ \E n, m \in Nodes : DeliverHeartbeat(n, m)

ElectSpec == ElectInit /\ [][ElectNext]_vars

----------------------------------------------------------------------------
(* The heartbeat interval against the clock: the heartbeat of a Master     *)
(* fires when its interval is due, re-elections run in between.            *)

\* the clock advances; an interval that is due fires first
ClockTick ==
    /\ \A n \in Nodes : (alive[n] /\ es[n].heartbeatTimer) => now < es[n].heartbeatDue
    /\ Tick

\* the interval set by startHeartbeat fires: the broadcast, and the next tick
\* is one heartbeatInterval later
HeartbeatFire(n) ==
    /\ alive[n]
    /\ es[n].heartbeatTimer
    /\ now = es[n].heartbeatDue
    /\ net' = net \cup Broadcast("heartbeat", n, view[n])
    /\ es' = [es EXCEPT ![n].heartbeatDue = now + HeartbeatInterval]
    /\ UNCHANGED <<alive, view, peersCheck, killed, storeVars>>

\* events["$node.connected"]: any node joined; checkForEtcdPeers is scheduled
NodeConnected(n) ==
    /\ alive[n]
    /\ ~peersCheck[n]
    /\ peersCheck' = [peersCheck EXCEPT ![n] = TRUE]
    /\ UNCHANGED <<alive, es, view, net, killed, storeVars>>

TimerInit == InitStoreVars /\ SettledCluster

TimerNext ==
    \/ ClockTick
    \/ \E n \in Nodes : HeartbeatFire(n)
    \/ \E n \in Nodes : NodeConnected(n)
    \/ \E n \in Nodes : checkForEtcdPeers(n)
    \/ \E n, m \in Nodes : DeliverMasterElected(n, m)
    \/ \E n, m \in Nodes : DeliverHeartbeat(n, m)

TimerSpec == TimerInit /\ [][TimerNext]_vars

----------------------------------------------------------------------------
(* Claims                                                                  *)

\* C1 as stated: in every reachable state with a running node, exactly one
\* running node is Master.
C1_ExactlyOneMaster == AliveNodes # {} => Cardinality(Masters) = 1

\* C1 amended: a running Master whose membership view lists a lower id has a
\* checkForEtcdPeers timer pending, so a Master above a known lower peer is
\* only provisional: it lasts until that pending election check runs.
C1_MasterAboveLowerPeerIsProvisional ==
    \A m \in AliveNodes :
        (es[m].isMaster /\ \E n \in view[m] : n < m) => peersCheck[m]

\* two running Masters that know each other, the higher one still provisional
C1_TwoProvisionalMasters ==
    \E n, m \in AliveNodes :
        /\ n < m /\ n \in view[m]
        /\ es[n].isMaster /\ es[m].isMaster
        /\ peersCheck[m]

\* C2: with distinct ids and a membership that stops changing (kills are
\* bounded, the registries drop stopped nodes), the cluster eventually reaches
\* and stays in the state where the lowest running id is Master and every
\* other running node is its Slave.
C2_EventuallySettled == <>[]Settled

\* three nodes started concurrently have settled on node 1
C2_ThreeNodesSettled ==
    /\ AllAlive /\ Kills = 0
    /\ Settled
    /\ net = {}
    /\ \A n \in Nodes : ~peersCheck[n]

\* C3: a direct set / delete / increment / compareAndSwap on a node whose role
\* is Slave fails with NotMaster, leaves every store (data, versions,
\* changelog) as it was and issues no replication call.
C3_SlaveRejectsDirectWrites ==
    [][(ops' # ops /\ last'.action \in WriteActions /\ ~es[last'.node].isMaster) =>
          /\ last'.error = "NotMaster"
          /\ store' = store
          /\ calls' = calls
          /\ replCount' = replCount]_vars

\* a running Slave has just rejected a direct write
C3_SlaveRejected ==
    /\ last.node \in Nodes /\ ~es[last.node].isMaster
    /\ last.action \in WriteActions
    /\ ~last.isReplication
    /\ last.error = "NotMaster"

\* C4 as stated: once the replication calls of the Master's writes have been
\* answered, every Slave of that Master holds each key the Master holds, at
\* the same value and version.
C4_ReplicatedWriteReachesSlaves ==
    calls = {} =>
        \A m, s \in Nodes :
            (IsMasterNode(m) /\ IsSlaveOf(s, m)) => Agrees(s, m, Keys)

\* C5 as stated: after a periodicSync the Master answered with changes, the
\* Slave holds every key of those changes the Master holds, at the same value
\* and version.
C5_SyncBringsSlaveUpToDate ==
    (last.action = "periodicSync" /\ last.error = "none") =>
        Agrees(last.node, es[last.node].masterId, last.answered)

\* C6: a call carrying the replication flag issues no replication call, so a
\* client write gives each peer at most one call, and apart from that the
\* flagged call does what the same call without the flag does.
C6_FlaggedCallNeverFansOut ==
    /\ \A w \in DOMAIN replCount, m \in Nodes : replCount[w][m] <= 1
    /\ last.isReplication => last.fanout = 0
    /\ \A c \in calls :
          LET flagged == writeHandler(es[c.to], store[c.to], c.req, TRUE, now)
              direct == writeHandler(es[c.to], store[c.to], c.req, FALSE, now)
          IN  /\ ~flagged.replicate
              /\ flagged = [direct EXCEPT !.replicate = FALSE]

\* a flagged call was applied by a node that is Master and went no further
C6_FlaggedCallApplied ==
    /\ last.isReplication /\ last.wasMaster
    /\ last.error = "none" /\ last.success
    /\ last.fanout = 0
    /\ \E w \in DOMAIN replCount : replCount[w][last.node] = 1

\* C7: A < B < C settled with Master = A; once A is killed and stays down, the
\* cluster reaches and stays in Master = B with C Slave of B.
C7_FailoverToB ==
    (<>(AllAlive /\ Settled) /\ <>[]DeadA) => <>[]FailedOverToB

\* A was killed, both registries dropped it, B took over and C follows B
C7_FailedOver ==
    /\ killed[1] = 1 /\ DeadA
    /\ 1 \notin view[2] \cup view[3]
    /\ FailedOverToB
    /\ net = {}

\* C8 as stated: A was down with B the settled Master; once A is back and all
\* three stay up, A ends as Slave of B and B stays Master.
C8_RestartedEndsSlaveOfB ==
    (<>(DeadA /\ FailedOverToB) /\ <>[]AllAlive)
        => <>[](IsSlaveOf(1, 2) /\ IsMasterNode(2))

\* C8 amended: the restarted A, having the lowest id, ends as Master, and B
\* and C end as its Slaves.
C8_RestartedLowestEndsMaster ==
    (<>(DeadA /\ FailedOverToB) /\ <>[]AllAlive)
        => <>[](IsMasterNode(1) /\ IsSlaveOf(2, 1) /\ IsSlaveOf(3, 1))

\* A was killed and restarted, and is Master again with B and C its Slaves
C8_RestartedIsMaster ==
    /\ killed[1] = 1 /\ AllAlive
    /\ IsMasterNode(1) /\ IsSlaveOf(2, 1) /\ IsSlaveOf(3, 1)
    /\ net = {}

\* C9: the consecutive successful Sets of a key, the first made while the key
\* is absent and no other write of the key in between, return 1, 2, 3, ...
C9_SetVersionsCountFromOne ==
    \A k \in Keys :
        setRun[k].valid =>
            \A i \in 1..Len(setRun[k].versions) : setRun[k].versions[i] = i

\* three consecutive Sets of one key returned 1, 2, 3
C9_ThreeSets ==
    \E k \in Keys : setRun[k].valid /\ setRun[k].versions = <<1, 2, 3>>

\* C10 as stated: every successful write of a key returns a version above the
\* one its previous write returned, also after a Delete or an expiry.
C10_VersionAlwaysIncreases ==
    [][\A k \in Keys : Wrote(k) => last'.version > lastVersion[k]]_vars

\* C10 amended: a successful write of a key the store still holds returns a
\* version above the stored one; a successful write of a key the store no
\* longer holds (never written, deleted, swept, or found expired by the read
\* of Increment / CompareAndSwap) returns version 1 again.
C10_VersionIncreasesWhileStored ==
    [][\A k \in Keys :
          Wrote(k) =>
            LET st == store[StoreNode]
                held == /\ k \in DOMAIN st.data
                        /\ \/ last'.action \in {"set", "applyChanges"}
                           \/ ~Expired(st.data[k], now)
            IN  IF held THEN last'.version > st.data[k].version
                        ELSE last'.version = 1]_vars

\* a Set that followed a Delete of the same key returned version 1 again
C10_SetAfterDelete ==
    /\ last.action = "set" /\ last.success /\ last.version = 1
    /\ \E i \in 1..Len(store[StoreNode].changelog) :
          /\ store[StoreNode].changelog[i].action = "delete"
          /\ store[StoreNode].changelog[i].key = last.key
          /\ \E j \in 1..(i - 1) :
                /\ store[StoreNode].changelog[j].action = "set"
                /\ store[StoreNode].changelog[j].key = last.key

\* C11: Delete of a key the store does not hold returns deleted = false, raises
\* no error and leaves data, metadata and changelog as they were; Delete of a
\* key it holds returns deleted = true and removes it, so a second Delete of
\* the key returns deleted = false.
C11_DeleteIsIdempotent ==
    [][(ops' # ops /\ last'.action = "delete") =>
          LET k == last'.key
              st == store[StoreNode]
          IN  /\ last'.error = "none"
              /\ k \notin DOMAIN store'[StoreNode].data
              /\ IF k \in DOMAIN st.data
                 THEN last'.deleted
                 ELSE ~last'.deleted /\ store' = store
              /\ (last.action = "delete" /\ last.key = k) => ~last'.deleted]_vars

\* a key was set, deleted, and deleted again: the second Delete found nothing
C11_DeletedTwice ==
    LET log == store[StoreNode].changelog IN
    /\ last.action = "delete" /\ ~last.deleted
    /\ Len(log) = 2
    /\ log[1].action = "set" /\ log[1].key = last.key
    /\ log[2].action = "delete" /\ log[2].key = last.key
    /\ ops = 3

\* the step is a CompareAndSwap on the store of StoreNode
CasStep == ops' # ops /\ last'.action = "compareAndSwap"

\* what Get finds for the key of the step, before the step
CasCurrent == getValue(store[StoreNode], last'.key, now)

\* the expected value of the step matches what Get finds: the same JSON value,
\* or nil for a key Get does not find
CasMatches ==
    IF CasCurrent.found THEN SameValue(CasCurrent.value, last'.expectedValue)
    ELSE last'.expectedValue = Null

\* C12 as stated: a CompareAndSwap whose expected value equals the current
\* value of the key (nil for an absent key) succeeds, stores the new value and
\* raises the version by one (1 for an absent key).
C12_MatchingSwapSucceeds ==
    [][(CasStep /\ CasMatches) =>
          LET k == last'.key IN
          /\ last'.success
          /\ k \in DOMAIN store'[StoreNode].data
          /\ store'[StoreNode].data[k].value = last'.value
          /\ store'[StoreNode].data[k].version = CasCurrent.version + 1
          /\ last'.version = CasCurrent.version + 1]_vars

\* C13 as stated: a CompareAndSwap whose expected value differs from the
\* current value of the key (or is not nil for an absent or expired key)
\* fails and leaves the whole store as it was.
C13_FailedSwapChangesNothing ==
    [][(CasStep /\ ~CasMatches) => (~last'.success /\ store' = store)]_vars

\* C13 amended: such a CompareAndSwap fails and writes nothing, but its read
\* removes the key when it finds it expired: then the key leaves the store
\* and one delete entry is appended; otherwise the store is as it was.
C13_FailedSwapOnlyExpires ==
    [][(CasStep /\ ~CasMatches) =>
          LET k == last'.key
              st == store[StoreNode]
              expired == k \in DOMAIN st.data /\ Expired(st.data[k], now)
          IN  /\ ~last'.success
              /\ \A n \in Nodes \ {StoreNode} : store'[n] = store[n]
              /\ IF expired
                 THEN /\ store'[StoreNode].data = Without(st.data, k)
                      /\ store'[StoreNode].changelog =
                            Append(st.changelog, DeleteEntry(k, now))
                 ELSE store'[StoreNode] = st]_vars

\* a CompareAndSwap with a wrong expected value failed on an expired key and
\* left a delete entry
C13_FailedSwapExpiredKey ==
    LET log == store[StoreNode].changelog IN
    /\ last.action = "compareAndSwap" /\ ~last.success
    /\ last.expectedValue # Null
    /\ Len(log) = 2
    /\ log[1].action = "set" /\ log[1].key = last.key /\ log[1].ttl # NoTtl
    /\ log[2].action = "delete" /\ log[2].key = last.key
    /\ ops = 2

\* the step is an Increment on the store of StoreNode
IncrementStep == ops' # ops /\ last'.action = "increment"

\* C14: Increment(key, delta) does what Set(key, current + delta) does, a key
\* Get does not find counting as 0: on such a key it yields value delta and
\* version 1, on a key holding number v at version n it yields v + delta and
\* n + 1; on a key that is absent or holds a live number it appends exactly
\* one set entry to the changelog.
C14_IncrementIsSetOfSum ==
    [][IncrementStep =>
          LET k == last'.key
              st == store[StoreNode]
              cur == getValue(st, k, now)
              base == IF cur.found THEN cur.value[2] ELSE 0
              sum == Num(base + last'.delta)
              version == IF cur.found THEN cur.version + 1 ELSE 1
          IN  (~cur.found \/ cur.value[1] = "number") =>
                /\ last'.success /\ last'.error = "none"
                /\ last'.value = sum /\ last'.version = version
                /\ store'[StoreNode] = setValue(cur.st, k, sum, NoTtl, now)
                /\ store'[StoreNode].data[k].value = sum
                /\ store'[StoreNode].data[k].version = version
                /\ (cur.found \/ k \notin DOMAIN st.data) =>
                      store'[StoreNode].changelog =
                         Append(st.changelog, SetEntry(k, sum, now, version, NoTtl))]_vars

\* Increment of the unseen key y by 3 gave {3, 1}; a second Increment by 5 gave
\* {8, 2}
C14_IncrementedTwice ==
    LET log == store[StoreNode].changelog IN
    /\ last.action = "increment" /\ last.key = "y" /\ last.delta = 5
    /\ last.value = Num(8) /\ last.version = 2
    /\ Len(log) = 2
    /\ log[1] = SetEntry("y", Num(3), log[1].timestamp, 1, NoTtl)
    /\ log[2].action = "set" /\ log[2].value = Num(8) /\ log[2].version = 2

\* x was absent, Set("x", 1) was the only operation so far, and the step is
\* Increment("x", 5)
SetOneThenIncrementFive ==
    /\ IncrementStep /\ last'.key = "x" /\ last'.delta = 5
    /\ ops = 1
    /\ last.action = "set" /\ last.key = "x" /\ last.value = Num(1)
    /\ Len(store[StoreNode].changelog) = 1
    /\ store[StoreNode].changelog[1].ttl = NoTtl

\* the Record of x after the step is {value: v, version: 2}
RecordOfXIs(v) ==
    /\ last'.value = Num(v) /\ last'.version = 2
    /\ store'[StoreNode].data["x"].value = Num(v)
    /\ store'[StoreNode].data["x"].version = 2

\* C15 as stated: Set("x", 1) then Increment("x", 5) yields {value: 7,
\* version: 2}.
C15_SetOneIncrementFiveGivesSeven ==
    [][SetOneThenIncrementFive => RecordOfXIs(7)]_vars

\* C15 amended: Set("x", 1) then Increment("x", 5) yields {value: 6,
\* version: 2}.
C15_SetOneIncrementFiveGivesSix ==
    [][SetOneThenIncrementFive => RecordOfXIs(6)]_vars

\* Set("x", 1) and Increment("x", 5) have run on an empty store
C15_SetThenIncremented ==
    LET log == store[StoreNode].changelog IN
    /\ ops = 2 /\ Len(log) = 2
    /\ log[1] = SetEntry("x", Num(1), log[1].timestamp, 1, NoTtl)
    /\ last.action = "increment" /\ last.key = "x" /\ last.delta = 5
    /\ last.success

\* the step is a Get on the store of StoreNode
GetStep == ops' # ops /\ last'.action = "get"

\* the changelog entries of key k, oldest first
EntriesOf(k) ==
    SelectSeq(store[StoreNode].changelog, LAMBDA change : change.key = k)

\* the store still holds what Set(k, v, ttl) with a ttl wrote: the newest
\* changelog entry of k is that set entry and the record has its version
HoldsSetWithTtl(k) ==
    /\ k \in DOMAIN store[StoreNode].data
    /\ EntriesOf(k) # <<>>
    /\ LET e == EntriesOf(k)[Len(EntriesOf(k))] IN
       /\ e.action = "set" /\ e.ttl # NoTtl
       /\ store[StoreNode].data[k].version = e.version
       /\ store[StoreNode].data[k].updatedAt = e.timestamp

\* C16: while the store holds what Set(k, v, ttl) wrote at time t, a Get(k)
\* issued after t + ttl returns NotFound, removes the key from data and
\* metadata and appends one delete entry for k to the changelog; a Get(k)
\* issued before t + ttl returns the record {v, version} and changes nothing.
C16_GetHonoursExpiry ==
    [][(GetStep /\ HoldsSetWithTtl(last'.key)) =>
          LET k == last'.key
              st == store[StoreNode]
              e == EntriesOf(k)[Len(EntriesOf(k))]
              expiry == e.timestamp + e.ttl
          IN  /\ st.data[k].expiresAt = expiry
              /\ now > expiry =>
                    /\ ~last'.found
                    /\ store'[StoreNode].data = Without(st.data, k)
                    /\ store'[StoreNode].changelog =
                          Append(st.changelog, DeleteEntry(k, now))
              /\ now < expiry =>
                    /\ last'.found
                    /\ last'.value = e.value /\ last'.version = e.version
                    /\ store' = store]_vars

\* Set with a ttl, then a Get after the expiry: NotFound, the key is gone and
\* the changelog ends with the delete entry of that Get
C16_GetAfterExpiry ==
    LET log == store[StoreNode].changelog IN
    /\ last.action = "get" /\ ~last.found
    /\ ops = 2
    /\ last.key \notin DOMAIN store[StoreNode].data
    /\ Len(log) = 2
    /\ log[1].action = "set" /\ log[1].key = last.key /\ log[1].ttl # NoTtl
    /\ log[2] = DeleteEntry(last.key, now)
    /\ now > log[1].timestamp + log[1].ttl

\* the step is a client's get / getPrefix / keys
ReadStep == ops' # ops /\ last'.action \in ReadActions

\* C17: get, getPrefix and keys never fail with NotMaster, on a Slave as on a
\* Master: the node answers from its own copy (get: the record it holds unless
\* expired; getPrefix: the unexpired records whose key has the prefix; keys:
\* the keys it holds), and the read touches no other node's store and issues
\* no replication call.
C17_ReadsAnsweredOnEveryRole ==
    [][ReadStep =>
          LET n == last'.node
              st == store[n]
              live == {k \in DOMAIN st.data : ~Expired(st.data[k], now)}
          IN  /\ last'.error = "none"
              /\ last'.action = "get" =>
                    /\ last'.found <=> last'.key \in live
                    /\ last'.found =>
                          /\ last'.value = st.data[last'.key].value
                          /\ last'.version = st.data[last'.key].version
              /\ last'.action = "getPrefix" =>
                    last'.answered = {k \in live : StartsWith(k, last'.key)}
              /\ last'.action = "keys" => last'.answered = DOMAIN st.data
              /\ \A m \in Nodes \ {n} : store'[m] = store[m]
              /\ calls' = calls]_vars

\* a Slave has just answered a get from its own copy, which lacks the key its
\* Master holds
C17_SlaveAnsweredRead ==
    /\ last.action = "get" /\ last.error = "none" /\ ~last.found
    /\ ~es[last.node].isMaster
    /\ es[last.node].masterId # NoNode
    /\ last.key \in DOMAIN store[es[last.node].masterId].data

\* what an election of node n over candidate set V must decide: Master if V is
\* empty or n is its lowest id, else Slave of the lowest id of V
DecidedByLowest(s, n, V) ==
    IF V = {} \/ Lowest(V) = n
    THEN s.isMaster /\ s.masterId = n
    ELSE ~s.isMaster /\ s.masterId = Lowest(V)

\* the step is the checkForEtcdPeers of n and it runs an election
PeersCheckElects(n) ==
    /\ peersCheck[n] /\ ~peersCheck'[n] /\ alive'[n]
    /\ Cardinality(view[n]) > 1

\* the step is the $node.disconnected of n for its master, which runs an
\* election over the remaining view
MasterLossElects(n) ==
    /\ alive[n] /\ alive'[n]
    /\ view'[n] # view[n]
    /\ view[n] \ view'[n] = {es[n].masterId}

\* C18: triggerElection on a running node n with no election in flight, over
\* any candidate set V its registry may list, leaves n Master when V is empty
\* or n is the lowest id of V, and otherwise Slave with masterId the lowest id
\* of V; the elections that checkForEtcdPeers and the loss of the master run
\* over the membership view decide so.
C18_ElectionDecidesByLowestId ==
    /\ [](\A n \in AliveNodes, V \in SUBSET Nodes :
             ~es[n].electionInProgress =>
                DecidedByLowest(triggerElection(es[n], n, V), n, V))
    /\ [][\A n \in Nodes :
             /\ PeersCheckElects(n) => DecidedByLowest(es'[n], n, view[n])
             /\ MasterLossElects(n) => DecidedByLowest(es'[n], n, view'[n])]_vars

\* 1 started alone and 2 after it; the checkForEtcdPeers of 2 has run its
\* election over {1, 2} and left 2 Slave of 1, while 1 has not yet run its own
\* and the announcement 2 made at its start is still in flight
C18_ElectedSlaveOfLowest ==
    /\ alive[1] /\ alive[2] /\ ~alive[3]
    /\ \A n \in Nodes : killed[n] = 0
    /\ view[2] = {1, 2}
    /\ ~peersCheck[2] /\ peersCheck[1]
    /\ IsMasterNode(1) /\ IsSlaveOf(2, 1)
    /\ [type |-> "masterElected", from |-> 2, to |-> 1] \in net

\* the step delivers to the running node n the heartbeat of m
HeartbeatDelivered(n, m) ==
    /\ [type |-> "heartbeat", from |-> m, to |-> n] \in net
    /\ [type |-> "heartbeat", from |-> m, to |-> n] \notin net'
    /\ alive'[n]

\* n and m are both Slave, each with the other as its master
SlavesOfEachOther(n, m) == IsSlaveOf(n, m) /\ IsSlaveOf(m, n)

\* C19 as stated: when the heartbeat of m reaches the Master n, n demotes
\* itself to Slave of m only if its id is the higher one: while m is Master
\* too, the lower id stays Master; and the delivery never leaves n and m Slave
\* of each other.
C19_OnlyHigherMasterDemotes ==
    [][\A n, m \in Nodes :
          (HeartbeatDelivered(n, m) /\ n # m /\ es[n].isMaster) =>
             /\ (alive[m] /\ es[m].isMaster) =>
                   IF n < m THEN es'[n].isMaster /\ es'[n].masterId = n
                   ELSE ~es'[n].isMaster /\ es'[n].masterId = m
             /\ ~SlavesOfEachOther(n, m)']_vars

\* the step delivers to the running node n the masterElected event of m
MasterElectedDelivered(n, m) ==
    /\ [type |-> "masterElected", from |-> m, to |-> n] \in net
    /\ [type |-> "masterElected", from |-> m, to |-> n] \notin net'
    /\ alive'[n]

\* C20: when the masterElected event of another node m reaches n, n is at once
\* Slave with masterId m, its heartbeat timer stopped and its master monitoring
\* started, whether it was Master or Slave before, and no other node changes;
\* an event naming n itself leaves n as it is.
C20_AnnouncementMakesSlave ==
    /\ [](\A n \in AliveNodes : handleMasterElected(es[n], n, n) = es[n])
    /\ [][\A n, m \in Nodes :
             (MasterElectedDelivered(n, m) /\ n # m) =>
                /\ ~es'[n].isMaster /\ es'[n].masterId = m
                /\ ~es'[n].heartbeatTimer
                /\ es'[n].electionTimer
                /\ \A o \in Nodes \ {n} : es'[o] = es[o]]_vars

\* 2 started while 1 was Master; its announcement has reached 1, which has not
\* run an election since: 1 is Slave of 2, monitoring it and sending no
\* heartbeat
C20_MasterTurnedSlave ==
    /\ alive[1] /\ alive[2] /\ ~alive[3]
    /\ \A n \in Nodes : killed[n] = 0
    /\ peersCheck[1] /\ peersCheck[2]
    /\ net = {}
    /\ IsMasterNode(2) /\ IsSlaveOf(1, 2)
    /\ es[1].electionTimer /\ ~es[1].heartbeatTimer

\* the step is a call of triggerElection on a node
ElectionCallStep == ops' # ops /\ last'.action = "triggerElection"

\* C21: a call of triggerElection made while electionInProgress is set starts
\* no election body (the registry is not read) and leaves the role, masterId
\* and timers of the node as they were; so a node never has two election
\* bodies in flight, and it has one exactly while its flag is set.  The
\* election taken as one step does the same: under the flag it changes
\* nothing and announces nothing.
C21_ElectionIsSingleFlight ==
    /\ [](\A n \in Nodes :
             /\ Cardinality(ElectionBodies(n)) <= 1
             /\ es[n].electionInProgress <=> ElectionBodies(n) # {}
             /\ es[n].electionInProgress =>
                   \A V \in SUBSET Nodes :
                       /\ triggerElection(es[n], n, V) = es[n]
                       /\ electionBroadcast(es[n], n, V) = {})
    /\ [][(ElectionCallStep /\ es[last'.node].electionInProgress) =>
             /\ ~last'.success
             /\ es' = es
             /\ suspended' = suspended
             /\ net' = net]_vars

\* a Slave's monitoring tick called triggerElection while an election of the
\* node was suspended at its await: the call returned at once
C21_SecondCallSkipped ==
    /\ last.action = "triggerElection" /\ ~last.success
    /\ es[last.node].electionInProgress
    /\ Cardinality(ElectionBodies(last.node)) = 1

\* C22 as stated: when an election runs on a Master and it wins again, the
\* node stays Master and its heartbeat interval goes on as it was: the timer
\* is not restarted, so its next tick comes when it was due.
C22_ReelectedMasterKeepsHeartbeat ==
    [][\A n \in Nodes :
          (PeersCheckElects(n) /\ es[n].isMaster /\ es'[n].isMaster) =>
             /\ es'[n].masterId = n
             /\ es'[n].heartbeatTimer
             /\ es'[n].heartbeatDue = es[n].heartbeatDue]_vars

\* the step is a monitoring tick that calls triggerElection (checkForEtcdPeers,
\* the other caller, clears its pending timer)
HealthTickCalls == ElectionCallStep /\ peersCheck' = peersCheck

\* C23: a monitoring tick on a Master does nothing; on a Slave it calls
\* triggerElection when the heartbeat timeout has passed, and otherwise probes
\* the recorded master (a Slave always has one) and calls triggerElection when
\* the probe fails or times out, and only then.
C23_MonitoringTickTriggers ==
    /\ [](\A n \in AliveNodes, timedOut, probeOk \in BOOLEAN :
             LET calls_ == checkMasterHealthTriggers(es[n], timedOut, probeOk) IN
             /\ es[n].isMaster => ~calls_
             /\ ~es[n].isMaster =>
                   /\ es[n].masterId # NoNode
                   /\ es[n].electionTimer
                   /\ calls_ <=> (timedOut \/ ~probeOk))
    /\ [][HealthTickCalls =>
             /\ ~es[last'.node].isMaster
             /\ es[last'.node].electionTimer]_vars

\* in the settled cluster, where no checkForEtcdPeers is pending, the first
\* call of triggerElection came from the monitoring tick of a Slave and
\* started an election
C23_SlaveTickStartedElection ==
    /\ ops = 1
    /\ \A n \in Nodes : ~peersCheck[n]
    /\ last.action = "triggerElection" /\ last.success /\ ~last.wasMaster
    /\ ElectionBodies(last.node) # {}

\* the step is a client's write handled without error, which replicates
ReplicatingWriteStep ==
    /\ ops' # ops /\ last'.action \in WriteActions
    /\ last'.error = "none"
    /\ last'.action = "compareAndSwap" => last'.success

\* the step settles one replication call (no request is made and a call
\* leaves the calls in flight)
LegStep == ops' = ops /\ calls' # calls

\* the step returns a write handler that awaited its replication calls
ReturnStep == suspended' # suspended /\ calls' = calls /\ ops' = ops

\* C24: a replicating write on node n issues one call to every available
\* etcd peer of its registry but n itself; a call that settles, fulfilled or
\* rejected, leaves the other calls in flight, the other nodes' stores and the
\* waiting handler's result as they were; and the handler returns to the
\* client its local result, with no error, whatever its calls did.
C24_ReplicationLegsAreIsolated ==
    [][/\ ReplicatingWriteStep =>
             LET n == last'.node IN
             /\ {c.to : c \in calls' \ calls} = view[n] \ {n}
             /\ \A c \in calls' \ calls : c.from = n
             /\ last'.fanout = Cardinality(view[n] \ {n})
       /\ LegStep =>
             \E c \in calls :
                 /\ calls' = calls \ {c}
                 /\ \A m \in Nodes \ {c.to} : store'[m] = store[m]
                 /\ suspended' = suspended
       /\ ReturnStep =>
             \E h \in suspended :
                 /\ suspended' = suspended \ {h}
                 /\ last'.action = "response" /\ last'.error = "none"
                 /\ last'.node = h.node
                 /\ last'.success = h.result.success
                 /\ last'.version = h.result.version
                 /\ store' = store]_vars

\* a set on the Master 1 was replicated to 2 and 3, both calls were rejected
\* (the key is in neither store), and the client got the successful result
C24_ClientAnsweredDespiteFailures ==
    /\ last.action = "response" /\ last.node = 1 /\ last.success
    /\ last.error = "none"
    /\ calls = {}
    /\ \E w \in DOMAIN replCount : replCount[w][2] = 1 /\ replCount[w][3] = 1
    /\ last.key \in DOMAIN store[1].data
    /\ last.key \notin DOMAIN store[2].data \cup DOMAIN store[3].data

\* C25 as stated: the write handler returns its result once the local write
\* is persisted, without waiting for its replication calls: no handler is
\* left waiting while a call of its write is still in flight.
C25_ResponseDoesNotWaitForReplication ==
    \A h \in suspended :
        h.fn = "writeHandler" => \A c \in calls : c.wid # h.id

\* C26: a node hands out its change-log entries for a sync request only while
\* it is Master: the sync action of a Master answers with
\* getChangesSince(lastSyncTime) and no error, the sync action of any other
\* node fails with its only-master error and gives no entries, the
\* syncRequest event is answered by a Master only, and no store changes.
SyncStep == ops' = ops + 1 /\ last'.action \in {"sync", "syncRequest"}

C26_OnlyMasterAnswersSync ==
    [][SyncStep =>
         LET n == last'.node
             entries == ArrayValue(getChangesSince(store[n], last'.lastSyncTime))
         IN  /\ last'.value.type = "array" => es[n].isMaster
             /\ last'.action = "sync" /\ es[n].isMaster =>
                    last'.error = "none" /\ last'.value = entries
             /\ last'.action = "sync" /\ ~es[n].isMaster =>
                    last'.error = "OnlyMaster" /\ last'.value = Undefined
             /\ store' = store]_vars

\* a Slave has refused a sync call while its Master holds change-log entries
C26_SlaveRefusedSync ==
    /\ last.action = "sync" /\ last.node # NoNode
    /\ ~es[last.node].isMaster
    /\ last.error = "OnlyMaster" /\ last.value = Undefined
    /\ es[last.node].masterId # NoNode
    /\ store[es[last.node].masterId].changelog # <<>>

\* C27 as stated: periodicSync acts only on a Slave that knows a masterId;
\* when the Master has answered with entries, the Slave's store is its store
\* with those entries applied by applyChanges and its lastSyncTime is the
\* current time; lastSyncTime moves in no other case, and a call that failed,
\* timed out or was refused leaves lastSyncTime and the store as they were.
PeriodicSyncStep == last'.action = "periodicSync"

C27_SyncAppliesThenAdvances ==
    [][PeriodicSyncStep =>
         LET n == last'.node
             entries == IF last'.value.type = "array" THEN last'.value.elements
                        ELSE <<>>
         IN  /\ ~es[n].isMaster /\ es[n].masterId # NoNode
             /\ last'.error = "none" /\ entries # <<>> =>
                    /\ store'[n] = applyChanges(store[n], entries, now)
                    /\ lastSyncTime'[n] = now
             /\ lastSyncTime'[n] # lastSyncTime[n] =>
                    /\ last'.error = "none"
                    /\ store'[n] = applyChanges(store[n], entries, now)
             /\ last'.error # "none" =>
                    store' = store /\ lastSyncTime' = lastSyncTime]_vars

\* C28 as stated: a replayed change overwrites the local record only if its
\* version is greater than the version the store holds for the key; a change
\* whose version is not greater is discarded and leaves the store as it was.
ApplyStep ==
    /\ applying[StoreNode] # <<>>
    /\ applying'[StoreNode] = Tail(applying[StoreNode])
    /\ last'.action = "applyChanges"

C28_StaleChangeDiscarded ==
    [][ApplyStep =>
         LET change == Head(applying[StoreNode])
             data == store[StoreNode].data
         IN  (/\ change.action = "set"
              /\ change.key \in DOMAIN data
              /\ change.version <= data[change.key].version)
             => store'[StoreNode] = store[StoreNode]]_vars

\* C29 as stated: calls in flight together on one node are serialized around
\* their read, write and persist.  Of two increments of a key in flight
\* together, the one that returns second returns the first one's sum plus its
\* own delta (so initial + d1 + d2) at the next version; of two
\* compareAndSwap calls of a key in flight together with the same expected
\* value, the one that returns second does not succeed.
ReturnsAfter(h) ==
    /\ suspended' = suspended \ {h}
    /\ last.success /\ last.key = h.key
    /\ h.id \in last.answered

C29_ConcurrentCallsSerialized ==
    [][\A h \in suspended :
          /\ (/\ ReturnsAfter(h)
              /\ h.fn = "incrementValue" /\ last.action = "increment")
             => /\ last'.success
                /\ last'.value = Num(last.value[2] + h.delta)
                /\ last'.version = last.version + 1
          /\ (/\ ReturnsAfter(h)
              /\ h.fn = "compareAndSwapValue" /\ last.action = "compareAndSwap"
              /\ last.expectedValue = h.expectedValue
              /\ last.value # h.expectedValue)
             => ~last'.success]_vars

\* C30: an increment of a key that holds a live value which is not a number
\* fails with the type error and leaves the store as it was: the key's value,
\* its version and metadata, and the change log.
HoldsNonNumber(k) ==
    /\ k \in DOMAIN store[StoreNode].data
    /\ ~Expired(store[StoreNode].data[k], now)
    /\ store[StoreNode].data[k].value[1] \notin {"number", "null"}

C30_IncrementOfNonNumberFails ==
    [][(IncrementStep /\ HoldsNonNumber(last'.key)) =>
          /\ last'.error = "TypeMismatch" /\ ~last'.success
          /\ store'[StoreNode] = store[StoreNode]]_vars

\* an increment has just failed on a key that holds a string
C30_IncrementRefused ==
    /\ last.action = "increment" /\ last.error = "TypeMismatch"
    /\ last.key \in DOMAIN store[StoreNode].data
    /\ store[StoreNode].data[last.key].value = Str(1)
    /\ store[StoreNode].data[last.key].version = 1
    /\ Len(store[StoreNode].changelog) = 1

\* C31: the change log never holds more than its bound of 1000 entries, and
\* after every step it is the last 1000 of the log before the step followed by
\* the entries the step appended: entries stay in append order and only the
\* oldest ones leave.  A successful Set or Increment and a Delete that removed
\* the key append their entry, which is then the newest of the log.
Appending ==
    /\ ops' = ops + 1
    /\ \/ last'.action \in {"set", "increment"} /\ last'.success
       \/ last'.action = "delete" /\ last'.deleted

C31_ChangelogBoundedAppendOnly ==
    /\ [](\A n \in Nodes : Len(store[n].changelog) <= ChangelogMax)
    /\ [][LET old == store[StoreNode].changelog
              new == store'[StoreNode].changelog
              newest == new[Len(new)]
          IN  /\ \E j \in 0..Cardinality(Keys) :
                    /\ j <= Len(new)
                    /\ new = LastN(old \o LastN(new, j), ChangelogMax)
              /\ Appending =>
                    /\ new # <<>>
                    /\ newest.key = last'.key /\ newest.timestamp = now
                    /\ newest.action = IF last'.action = "delete" THEN "delete"
                                       ELSE "set"
                    /\ newest.version = last'.version]_vars

\* the log is full and its oldest entry is no longer the first one appended
C31_OldestEvicted ==
    LET log == store[StoreNode].changelog IN
    /\ Len(log) = ChangelogMax
    /\ log[1].version > 1
    /\ log[ChangelogMax].action = "delete"
    /\ log[ChangelogMax - 1].version = ChangelogMax

\* C32 as stated: getChangesSince(t) with a timestamp t >= 0 returns the
\* entries of the change log whose timestamp is greater than t, in the order of
\* the log; without a timestamp it returns the last 100 entries.
ChangesSinceStep == ops' = ops + 1 /\ last'.action = "getChangesSince"

C32_ChangesSinceIsStrictlyNewer ==
    [][ChangesSinceStep =>
         LET t == last'.lastSyncTime
             log == store[StoreNode].changelog
         IN  last'.value.elements =
                IF t = NoTimestamp THEN LastN(log, SyncWindow)
                ELSE SelectSeq(log, LAMBDA change : change.timestamp > t)]_vars

\* C33 as stated: applyChanges replays the entries in the order of the list,
\* and an entry that fails does not end the batch: the turn of an entry raises
\* nothing, leaves the later entries to be replayed, and a set or delete entry
\* is applied whatever became of the entries before it.
ApplyTurnStep ==
    /\ applying[StoreNode] # <<>>
    /\ applying'[StoreNode] # applying[StoreNode]
    /\ last'.action = "applyChanges"

C33_BatchSurvivesFailedEntry ==
    [][ApplyTurnStep =>
         LET change == Head(applying[StoreNode])
             st == store[StoreNode]
         IN  /\ last'.error = "none"
             /\ applying'[StoreNode] = Tail(applying[StoreNode])
             /\ change.action = "set" =>
                    store'[StoreNode] =
                       setValue(st, change.key, change.value, change.ttl, now)
             /\ change.action = "delete" =>
                    store'[StoreNode] = deleteKey(st, change.key, now).st]_vars

\* C34 as stated: a start that finds the data file missing, empty or
\* unparsable gives an empty store, with no keys and an empty change log, and
\* writes the data file anew; a start that finds both files as they were
\* written gives the keys that have not expired, with their values and
\* versions, and the change log.
RestartStep == ops' = ops + 1 /\ last'.action = "restart"

\* st as it comes back from its files at time time
Reloaded(st, time) ==
    [data |-> [k \in {x \in DOMAIN st.data : ~Expired(st.data[x], time)} |->
                 [st.data[k] EXCEPT !.value = Parsed(@)]],
     changelog |-> [i \in 1..Len(st.changelog) |->
                      [st.changelog[i] EXCEPT !.value = Parsed(@)]]]

C34_StartRecoversOrReloads ==
    [][RestartStep =>
         LET found == last'.expectedValue
             st == store[StoreNode]
         IN  /\ found.data.kind # "json" =>
                   /\ store'[StoreNode] = EmptyStore
                   /\ last'.value.data = saveDataFile(EmptyStore)
             /\ found = saveToDisk(st) =>
                   store'[StoreNode] = Reloaded(st, now)]_vars

\* C35, corrected: health() reports healthy exactly when the peers whose probe
\* call returned, whatever status they reported, plus the node itself are more
\* than half of the nodes its registry lists as running the service, and
\* degraded otherwise: with exactly half it reports degraded.
HealthAnswered ==
    /\ last'.action = "health"
    /\ \E c \in suspended : c \notin suspended' /\ Len(c.path) = 1

C35_HealthyIffMajorityAnswered ==
    [][HealthAnswered =>
         LET n == last'.node
             answering == Cardinality(last'.answered) + 1
             known == Cardinality(view[n])
         IN  /\ last'.answered \subseteq view[n] \ {n}
             /\ last'.success <=> 2 * answering > known
             /\ 2 * answering = known => ~last'.success]_vars

\* health() has answered healthy on a node that knows three nodes and got an
\* answer from one of the two others, and that one reported degraded
C35_HealthyWithDegradedPeer ==
    /\ last.action = "health" /\ last.success
    /\ last.fanout = 3
    /\ Cardinality(last.answered) = 1
    /\ last.expectedValue = {}

\* C35 as stated: health() reports healthy exactly when the peers that
\* reported status healthy, plus the node itself, are more than half of the
\* known nodes.
C35_HealthyIffMajorityHealthy ==
    [][HealthAnswered =>
         (last'.success <=>
             2 * (Cardinality(last'.expectedValue) + 1) > Cardinality(view[last'.node]))]_vars

\* C36, as stated: answering a health probe starts no chain of probes that
\* leads back to a node already in the chain, so the chain of handlers behind
\* one request visits every node at most once, and the probe of a Slave to a
\* live Master succeeds.
NoNodeTwice(path) ==
    \A i, j \in 1..Len(path) : path[i] = path[j] => i = j

MasterProbeAnswered ==
    /\ last'.action = "checkMasterHealth"
    /\ \E c \in suspended :
          /\ c \notin suspended' /\ Len(c.path) = 1
          /\ c.kind = "checkMasterHealth"

C36_ProbesNeverLeadBack ==
    /\ [](\A h \in suspended : h.fn = "health" => NoNodeTwice(h.path))
    /\ [][MasterProbeAnswered /\ alive[es[last'.node].masterId]
             => last'.success]_vars

\* the rest of C36: a request whose probes all fail or return is answered
\* after no more calls than the node knows peers
C36_ProbedOncePerPeer ==
    \A h \in suspended :
       h.fn = "health" =>
          /\ h.todo \cup h.answered \subseteq
                (IF h.kind = "health" THEN view[h.node] \ {h.node}
                 ELSE {es[h.node].masterId})
          /\ h.todo \cap h.answered = {}
          /\ h.waiting # NoNode => h.waiting \in h.todo

\* C37: on every running node, isMaster = true implies that masterId is the
\* node's own id, and isMaster = false implies that masterId is the id of
\* another node, whichever of becomeMaster, becomeSlave and the two heartbeat
\* handlers wrote the fields last.
C37_RoleMatchesMasterId ==
    \A n \in Nodes :
       alive[n] =>
          /\ es[n].isMaster => es[n].masterId = n
          /\ ~es[n].isMaster => es[n].masterId \in Nodes \ {n}

\* the lowest node gave up the Master role to a higher one, which is itself
\* a Slave by now: only a heartbeat or an announcement makes the lowest node
\* a Slave of a higher one
C37_LowestFollowsASlave ==
    \E n, m \in Nodes :
       /\ n < m /\ alive[n] /\ alive[m]
       /\ \A x \in Nodes : alive[x] => n <= x
       /\ ~es[n].isMaster /\ es[n].masterId = m
       /\ ~es[m].isMaster

\* C38, as stated: in a settled cluster (the lowest node is Master, the
\* others are its Slaves) whose registries all list every node, with
\* heartbeats and health probes delivered, no node changes its role and no
\* node triggers an election.
SettledCluster38 ==
    /\ \A n \in Nodes : alive[n] /\ view[n] = Nodes
    /\ \A n \in Nodes : es[n].isMaster <=> n = Lowest(Nodes)
    /\ \A n \in Nodes : es[n].masterId = Lowest(Nodes)

C38_SettledClusterStaysQuiet ==
    [][SettledCluster38 =>
         /\ \A n \in Nodes : es'[n].isMaster = es[n].isMaster
         /\ ~(MasterProbeAnswered /\ last'.error = "triggerElection")]_vars

\* the rest of C38: in a settled cluster no node changes its role or its
\* master, and every probe of a Slave to the Master ends in triggerElection
C38_RolesKeptButElectionRuns ==
    [][SettledCluster38 =>
         /\ \A n \in Nodes : /\ es'[n].isMaster = es[n].isMaster
                             /\ es'[n].masterId = es[n].masterId
         /\ MasterProbeAnswered => last'.error = "triggerElection"]_vars

\* C39, as stated: every removal of a key from the store, by Delete, by the
\* lazy expiry of Get or by the expiry sweep, appends a delete entry for the
\* key to the change log, so that the keys of the store are those a replay of
\* the change log from an empty store gives.
RECURSIVE ReplayKeys(_)
ReplayKeys(changelog) ==
    IF changelog = <<>> THEN {}
    ELSE LET before == ReplayKeys(SubSeq(changelog, 1, Len(changelog) - 1))
             entry == changelog[Len(changelog)]
         IN  IF entry.action = "set" THEN before \cup {entry.key}
             ELSE IF entry.action = "delete" THEN before \ {entry.key}
             ELSE before

Removed(k) ==
    /\ k \in DOMAIN store[StoreNode].data
    /\ k \notin DOMAIN store'[StoreNode].data

LogsDeleteOf(k) ==
    LET old == store[StoreNode].changelog
        new == store'[StoreNode].changelog
    IN  \E i \in 1..Len(new) :
           /\ i > Len(old)
           /\ new[i].action = "delete" /\ new[i].key = k
           /\ new[i].timestamp = now

C39_EveryRemovalIsLogged ==
    /\ [](DOMAIN store[StoreNode].data = ReplayKeys(store[StoreNode].changelog))
    /\ [][\A k \in Keys : Removed(k) => LogsDeleteOf(k)]_vars

\* the rest of C39: a removal by Delete, by the lazy expiry of Get or of
\* another operation that reads through getValue, or by a replayed delete
\* entry is logged; only the sweep removes without an entry
C39_RemovalsButSweepAreLogged ==
    [][\A k \in Keys :
          Removed(k) /\ last'.action # "cleanup" => LogsDeleteOf(k)]_vars

\* C40: triggerElection clears electionInProgress whenever it finishes, with
\* a Master outcome, a Slave outcome, the early return on an empty node list
\* and a failed membership lookup alike, so the flag never stays set and a
\* later trigger is not blocked for ever; after a failed lookup the role and
\* masterId of the node are what they were.
ElectionFinished(b) ==
    b \in suspended /\ b.fn = "triggerElection" /\ b \notin suspended'

C40_ElectionFlagAlwaysCleared ==
    /\ [][\A b \in suspended :
            ElectionFinished(b) =>
               /\ ~es'[b.node].electionInProgress
               /\ last'.error = "lookup" =>
                     /\ es'[b.node].isMaster = es[b.node].isMaster
                     /\ es'[b.node].masterId = es[b.node].masterId]_vars
    /\ \A n \in Nodes :
          es[n].electionInProgress ~> ~es[n].electionInProgress

\* an election of a Slave has finished on a failed lookup: the flag is clear
\* and the node is still a Slave
C40_FinishedOnLookupError ==
    /\ last.action = "triggerElectionDone" /\ last.error = "lookup"
    /\ ~last.wasMaster /\ ~es[last.node].isMaster
    /\ ~es[last.node].electionInProgress
    /\ ops > 0

====
